---- MODULE Spec2Model ----
(***************************************************************************)
(* Model of the IPC catalogue ingestion pipeline:                          *)
(*   - build_db: the per-row hierarchy builder writing a scratch store     *)
(*   - ingest_pdfs: the per-document merge into the live store             *)
(*   - ImportService / ScanService: the job queues, their workers, the     *)
(*     file promotion with backup/rollback and the shared write lock       *)
(***************************************************************************)
EXTENDS Integers, Sequences, FiniteSets, TLC

(***************************************************************************)
(* Bounds of the model                                                     *)
(***************************************************************************)
MaxRows == 3
MaxLevel == 2
MaxBuildDocs == 2
MaxIngestCalls == 2
MaxImportJobs == 2
MaxScanJobs == 1
MaxApiCalls == 1
MaxPruneJobs == 6
MaxLiveJobs == 2
MaxFileChanges == 2
MaxCandidates == 2
MaxEnsureCalls == 2
MaxSchemaDocs == 2
MaxRenderCalls == 5
MaxBatch == 3
MaxCacheOps == 4
MaxClock == 2

(***************************************************************************)
(* Encodings                                                               *)
(***************************************************************************)
\* SQL NULL / Python None in an integer column
NULL == 0 - 1
\* the value build_db writes into a stack slot of a level it never saw
Placeholder == 0

MaxOf(S) == IF S = {} THEN 0 ELSE CHOOSE m \in S : \A x \in S : x <= m
MinOf(S) == CHOOSE m \in S : \A x \in S : m <= x
\* sqlite rowid of the next row of a table with INTEGER PRIMARY KEY
NextRowId(rows) == MaxOf({r.id : r \in rows}) + 1

EmptyStore == [documents |-> {}, pages |-> {}, parts |-> {}, xrefs |-> {}, aliases |-> {}]

(***************************************************************************)
(* Files: a relative path under pdf_dir is target_dir plus file name       *)
(***************************************************************************)
Paths == {[dir |-> "", name |-> "a.pdf"], [dir |-> "", name |-> "b.pdf"],
          [dir |-> "engine", name |-> "a.pdf"]}

\* Path(...).name
PdfName(path) == path.name

\* SQL NULL in a column that holds a relative path
NullPath == [dir |-> "", name |-> ""]

\* the bytes of a file: 0 is "no file", the others are distinct payloads
NoFile == 0
Contents == {1, 2}

\* the files found in the PDF directory: the payloads 1 and 2 as uploaded, 3 is
\* payload 1 written again later (same size, later mtime), 4 is a longer
\* payload 2 whose mtime was kept (other size, same mtime)
Versions == {1, 2, 3, 4}

(***************************************************************************)
(* build_db: one extracted record of a PDF                                 *)
(***************************************************************************)
\* data stands for the text cells of the row (part number cell, nomenclature, ...)
Pages == {1, 2}
Data == {1, 2}
Rec == [page_num : Pages, nom_level : 0..MaxLevel, data : Data]

\* meta.get("figure_code") of a page: odd pages carry figure code 1 in their footer,
\* even pages carry none (0 stands for None)
page_figure_code(page_num) == page_num % 2

\* _extract_xrefs(nomenclature): the nomenclature of odd data holds one reference
extract_xrefs(data) == IF data % 2 = 1 THEN {"NHA"} ELSE {}

\* COALESCE(parent_part_id, 0) of the unique index idx_parts_row_unique
Coalesce(v) == IF v = NULL THEN 0 ELSE v

\* the columns of idx_parts_row_unique; data stands for the text columns
RowKey(p) == <<p.document_id, p.page_num, p.figure_code, p.data, p.nom_level,
               Coalesce(p.parent_part_id)>>

\* fig_key = f"{document_id}:{figure_code or f'PAGE{page_num}'}"
fig_key(document_id, page_num) ==
    IF page_figure_code(page_num) # 0
    THEN <<document_id, "FIG", page_figure_code(page_num)>>
    ELSE <<document_id, "PAGE", page_num>>

\* hier_stack_by_fig.setdefault(fig_key, [])
StackOf(stacks, key) == IF key \in DOMAIN stacks THEN stacks[key] ELSE <<>>

\* parent_part_id of a row at nom_level given its group's stack (1-based here)
ParentOf(stack, nom_level) ==
    IF nom_level > 0 /\ Len(stack) >= nom_level THEN stack[nom_level] ELSE NULL

\* the stack update without del stack[nom_level + 1 :]
StackAfterKeepsDeeper(stack, nom_level, part_id) ==
    LET padded == IF Len(stack) <= nom_level
                  THEN stack \o [i \in 1..(nom_level + 1 - Len(stack)) |-> Placeholder]
                  ELSE stack
    IN [padded EXCEPT ![nom_level + 1] = part_id]

\* the stack after a row with id part_id at nom_level was processed
StackAfter(stack, nom_level, part_id) ==
    LET padded == IF Len(stack) <= nom_level
                  THEN stack \o [i \in 1..(nom_level + 1 - Len(stack)) |-> Placeholder]
                  ELSE stack
    IN SubSeq([padded EXCEPT ![nom_level + 1] = part_id], 1, nom_level + 1)

\* the body of build_db's loop over the records of one document.
\* st = [db |-> scratch store, stacks |-> hier_stack_by_fig]
build_db_rec(st, document_id, rec) ==
    LET key == fig_key(document_id, rec.page_num)
        stack == StackOf(st.stacks, key)
        parent_part_id == ParentOf(stack, rec.nom_level)
        row == [id |-> NextRowId(st.db.parts), document_id |-> document_id,
                page_num |-> rec.page_num,
                figure_code |-> page_figure_code(rec.page_num), data |-> rec.data, nom_level |-> rec.nom_level,
                parent_part_id |-> parent_part_id, attached_to_part_id |-> NULL]
        dup == {q \in st.db.parts : RowKey(q) = RowKey(row)}
        inserted == dup = {}
        part_id == IF inserted THEN row.id ELSE MinOf({q.id : q \in dup})
        page_new == ~ \E pg \in st.db.pages :
                        pg.document_id = document_id /\ pg.page_num = rec.page_num
        page_row == [id |-> NextRowId(st.db.pages), document_id |-> document_id,
                     page_num |-> rec.page_num,
                     figure_code |-> page_figure_code(rec.page_num)]
        xref_rows == {[id |-> NextRowId(st.db.xrefs), part_id |-> part_id, kind |-> k] :
                         k \in extract_xrefs(rec.data)}
    IN [db |-> [st.db EXCEPT
                  !.pages = IF page_new THEN @ \cup {page_row} ELSE @,
                  !.parts = IF inserted THEN @ \cup {row} ELSE @,
                  !.xrefs = IF inserted THEN @ \cup xref_rows ELSE @],
        stacks |-> [k \in DOMAIN st.stacks \cup {key} |->
                      IF k = key THEN StackAfter(stack, rec.nom_level, part_id)
                                 ELSE st.stacks[k]]]

\* for rec in _iter_coords_records(doc): the loop over one document
RECURSIVE build_db_recs(_, _, _)
build_db_recs(st, document_id, recs) ==
    IF recs = <<>> THEN st
    ELSE build_db_recs(build_db_rec(st, document_id, Head(recs)), document_id, Tail(recs))

\* what _iter_coords_records yields for a payload: payload 1 is a regular
\* assembly tree with a repeated row, payload 2 starts below level 0 and spans
\* two pages; 3 is payload 1 and 4 is payload 2 written again at another time;
\* every other payload is one fitz.open cannot read
PdfReadable(content) == content \in {1, 2, 3, 4}
PdfRecords(content) ==
    IF content \in {1, 3}
    THEN << [page_num |-> 1, nom_level |-> 0, data |-> 1],
            [page_num |-> 1, nom_level |-> 1, data |-> 1],
            [page_num |-> 1, nom_level |-> 1, data |-> 2],
            [page_num |-> 1, nom_level |-> 1, data |-> 2] >>
    ELSE << [page_num |-> 1, nom_level |-> 1, data |-> 1],
            [page_num |-> 1, nom_level |-> 1, data |-> 2],
            [page_num |-> 2, nom_level |-> 0, data |-> 1] >>

\* build_db's loop over pdf_paths, writing the scratch store db. Neither INSERT
\* INTO documents of build_db.py names a relative_path column: where the store
\* has one, the rows they write hold NULL in it.
\* inputs: sequence of [path, content]; result [ok, db]; ok = FALSE when it raises
\* (documents.pdf_name is UNIQUE in the scratch store, fitz.open raises on a
\* missing or unreadable file)
RECURSIVE build_db_from(_, _)
build_db_from(db, inputs) ==
    IF inputs = <<>> THEN [ok |-> TRUE, db |-> db]
    ELSE LET input == Head(inputs)
             document_id == NextRowId(db.documents)
             doc_row == [id |-> document_id, pdf_name |-> PdfName(input.path),
                         pdf_path |-> input.path, relative_path |-> NullPath]
             name_taken == \E d \in db.documents : d.pdf_name = doc_row.pdf_name
             opened == [db |-> [db EXCEPT !.documents = @ \cup {doc_row}],
                        stacks |-> <<>>]
         IN IF name_taken \/ input.content = NoFile \/ ~PdfReadable(input.content)
            THEN [ok |-> FALSE, db |-> db]
            ELSE build_db_from(
                   build_db_recs(opened, document_id, PdfRecords(input.content)).db,
                   Tail(inputs))

build_db(inputs) == build_db_from(EmptyStore, inputs)

(***************************************************************************)
(* ingest_pdfs: merge of the scratch store into the live store             *)
(***************************************************************************)
\* DELETE FROM documents WHERE id = ? with ON DELETE CASCADE on pages and parts,
\* and from parts on xrefs and aliases
DeleteDocumentKeep(db, doc_id) == db

DeleteDocument(db, doc_id) ==
    LET gone == {p.id : p \in {q \in db.parts : q.document_id = doc_id}}
    IN [documents |-> {d \in db.documents : d.id # doc_id},
        pages |-> {pg \in db.pages : pg.document_id # doc_id},
        parts |-> {p \in db.parts : p.document_id # doc_id},
        xrefs |-> {x \in db.xrefs : x.part_id \notin gone},
        aliases |-> {a \in db.aliases : a.part_id \notin gone}]

\* the documents the merge of src_doc replaces:
\* SELECT id FROM documents WHERE pdf_name = ?
ExistingDocuments(db, src_doc) == {d \in db.documents : d.pdf_name = src_doc.pdf_name}

\* a merge that copies the ids of the scratch store instead of remapping them
PartIdMapKeepsIds(src_parts, max_part_id, src_id) ==
    IF src_id \in {p.id : p \in src_parts} THEN src_id ELSE NULL

\* part_id_map.get(src_id): None when src_id is no part of the document
PartIdMap(src_parts, max_part_id, src_id) ==
    IF src_id \in {p.id : p \in src_parts}
    THEN max_part_id + Cardinality({p \in src_parts : p.id <= src_id})
    ELSE NULL

\* the body of ingest_pdfs' loop over src_docs, up to its conn.commit().
\* result [ok, db, replaced]; ok = FALSE when an INSERT violates a constraint
merge_document(live, src, src_doc) ==
    LET existing == ExistingDocuments(live, src_doc)
        cleared == IF existing = {} THEN live
                   ELSE DeleteDocument(live, MinOf({d.id : d \in existing}))
        dst_doc_id == NextRowId(cleared.documents)
        dst_doc == [id |-> dst_doc_id, pdf_name |-> src_doc.pdf_name,
                    pdf_path |-> src_doc.pdf_path, relative_path |-> NullPath]
        src_pages == {pg \in src.pages : pg.document_id = src_doc.id}
        src_parts == {p \in src.parts : p.document_id = src_doc.id}
        max_page_id == MaxOf({pg.id : pg \in cleared.pages})
        max_part_id == MaxOf({p.id : p \in cleared.parts})
        max_xref_id == MaxOf({x.id : x \in cleared.xrefs})
        max_alias_id == MaxOf({a.id : a \in cleared.aliases})
        map(id) == IF id = NULL THEN NULL ELSE PartIdMap(src_parts, max_part_id, id)
        dst_pages == {[pg EXCEPT !.document_id = dst_doc_id,
                                 !.id = max_page_id
                                        + Cardinality({q \in src_pages : q.page_num <= pg.page_num})] :
                        pg \in src_pages}
        dst_parts == {[p EXCEPT !.id = map(p.id), !.document_id = dst_doc_id,
                                !.parent_part_id = map(p.parent_part_id),
                                !.attached_to_part_id = map(p.attached_to_part_id)] :
                        p \in src_parts}
        src_xrefs == {x \in src.xrefs : x.part_id \in {p.id : p \in src_parts}}
        dst_xrefs == {[x EXCEPT !.part_id = map(x.part_id),
                                !.id = max_xref_id
                                       + Cardinality({y \in src_xrefs : y.id <= x.id})] :
                        x \in src_xrefs}
        src_aliases == {a \in src.aliases : a.part_id \in {p.id : p \in src_parts}}
        dst_aliases == {[a EXCEPT !.part_id = map(a.part_id),
                                  !.id = max_alias_id
                                         + Cardinality({y \in src_aliases : y.id <= a.id})] :
                          a \in src_aliases}
        name_clash == \E d \in cleared.documents : d.pdf_name = dst_doc.pdf_name
        key_clash == \/ \E p \in dst_parts : \E q \in cleared.parts : RowKey(p) = RowKey(q)
                     \/ \E p, q \in dst_parts : p.id # q.id /\ RowKey(p) = RowKey(q)
    IN [ok |-> ~name_clash /\ ~key_clash,
        replaced |-> existing # {},
        db |-> [documents |-> cleared.documents \cup {dst_doc},
                pages |-> cleared.pages \cup dst_pages,
                parts |-> cleared.parts \cup dst_parts,
                xrefs |-> cleared.xrefs \cup dst_xrefs,
                aliases |-> cleared.aliases \cup dst_aliases]]

\* the documents of the scratch store in the order of
\* SELECT ... FROM documents ORDER BY id
SrcDocs(src) ==
    [i \in 1..Cardinality(src.documents) |->
        CHOOSE d \in src.documents :
            Cardinality({e \in src.documents : e.id <= d.id}) = i]

\* conn.commit() at the end of one document's merge: acc.committed is the
\* store as committed, acc.db the store as the connection sees it
CommitAtEndOnly(acc, src, k, m) ==
    [ok |-> TRUE, db |-> m.db,
     committed |-> IF k = Cardinality(src.documents) THEN m.db ELSE acc.committed,
     merged |-> acc.merged + 1,
     replaced |-> acc.replaced + (IF m.replaced THEN 1 ELSE 0)]

CommitDocument(acc, src, k, m) ==
    [ok |-> TRUE, db |-> m.db, committed |-> m.db, merged |-> acc.merged + 1,
     replaced |-> acc.replaced + (IF m.replaced THEN 1 ELSE 0)]

\* ingest_pdfs' loop over src_docs from document k on. fault = k makes the
\* INSERT INTO documents of document k raise; the exception leaves ingest_pdfs
\* and the caller's "with sqlite3.connect(...) as conn" block rolls the open
\* transaction back, so the connection is back at what was committed
RECURSIVE merge_from(_, _, _, _)
merge_from(acc, src, k, fault) ==
    IF k > Cardinality(src.documents) THEN acc
    ELSE LET m == merge_document(acc.db, src, SrcDocs(src)[k])
         IN IF k = fault \/ ~m.ok
            THEN [acc EXCEPT !.ok = FALSE, !.db = acc.committed]
            ELSE merge_from(CommitDocument(acc, src, k, m), src, k + 1, fault)

\* ingest_pdfs(conn, pdf_paths) run inside the caller's connection block.
\* inputs: sequence of [path, content]; fault: 0 (none) or the index of the
\* document whose merge raises. Result [ok, db, committed, merged, replaced]
ingest_pdfs(store, inputs, fault) ==
    LET start == [ok |-> TRUE, db |-> store, committed |-> store, merged |-> 0,
                  replaced |-> 0]
        built == build_db(inputs)
    IN IF inputs = <<>> THEN start
       ELSE IF ~built.ok THEN [start EXCEPT !.ok = FALSE]
       ELSE merge_from(start, built.db, 1, fault)

(***************************************************************************)
(* build_db: canonicalization of a part-number cell.  A string is the      *)
(* sequence of its characters                                              *)
(***************************************************************************)
EnDash == "en dash"
EmDash == "em dash"
Digits == {"0", "1", "2", "3", "4", "5", "9"}
UpperLetters == {"A", "B", "C", "O", "X", "Z"}
LowerLetters == {"a", "b", "c", "o", "x", "z"}

\* the characters in code point order, as sorted() compares them
CodePoints == <<" ", "-", ".", "0", "1", "2", "3", "4", "5", "9",
                "A", "B", "C", "O", "X", "Z", "a", "b", "c", "o", "x", "z",
                EnDash, EmDash>>
ord(ch) == CHOOSE i \in 1..Len(CodePoints) : CodePoints[i] = ch

\* str.upper() and str.lower(), character by character
upper_ch(ch) == IF ch \in LowerLetters THEN CodePoints[ord(ch) - 6] ELSE ch
lower_ch(ch) == IF ch \in UpperLetters THEN CodePoints[ord(ch) + 6] ELSE ch
upper(str) == [i \in 1..Len(str) |-> upper_ch(str[i])]
lower(str) == [i \in 1..Len(str) |-> lower_ch(str[i])]

\* str.strip()
RECURSIVE lstrip(_)
lstrip(str) == IF str # <<>> /\ Head(str) = " " THEN lstrip(Tail(str)) ELSE str
RECURSIVE rstrip(_)
rstrip(str) ==
    IF str # <<>> /\ str[Len(str)] = " " THEN rstrip(SubSeq(str, 1, Len(str) - 1)) ELSE str
strip(str) == rstrip(lstrip(str))

\* str < str of Python
RECURSIVE str_lt(_, _)
str_lt(x, y) ==
    IF y = <<>> THEN FALSE
    ELSE IF x = <<>> THEN TRUE
    ELSE IF Head(x) # Head(y) THEN ord(Head(x)) < ord(Head(y))
    ELSE str_lt(Tail(x), Tail(y))

\* sorted(tokens)
RECURSIVE sorted(_)
sorted(tokens) ==
    IF tokens = {} THEN <<>>
    ELSE LET first == CHOOSE t \in tokens : \A u \in tokens \ {t} : str_lt(t, u)
         IN <<first>> \o sorted(tokens \ {first})

CharIn(str, i, class) == i >= 1 /\ i <= Len(str) /\ str[i] \in class

_norm_ws(str) == SelectSeq(str, LAMBDA ch : ch # " ")

_norm_loose(str) ==
    LET up == upper(str)
        dashed == [i \in 1..Len(up) |-> IF up[i] \in {EnDash, EmDash} THEN "-" ELSE up[i]]
        packed == _norm_ws(dashed)
        zeroed == [i \in 1..Len(packed) |->
                     IF /\ packed[i] = "O"
                        /\ CharIn(packed, i - 1, Digits) /\ CharIn(packed, i + 1, Digits)
                     THEN "0" ELSE packed[i]]
    IN [i \in 1..Len(zeroed) |->
          IF /\ zeroed[i] = "0"
             /\ CharIn(zeroed, i - 1, UpperLetters) /\ CharIn(zeroed, i + 1, UpperLetters)
          THEN "O" ELSE zeroed[i]]

\* difflib.SequenceMatcher.find_longest_match(alo, ahi, blo, bhi) without junk:
\* the longest block, of those the one that starts earliest in a, of those the
\* one that starts earliest in b (positions from 1, bounds included)
find_longest_match(a, b, alo, ahi, blo, bhi) ==
    LET blocks == {m \in (alo..ahi) \X (blo..bhi) \X (1..(ahi - alo + 1)) :
                     /\ m[1] + m[3] - 1 <= ahi
                     /\ m[2] + m[3] - 1 <= bhi
                     /\ \A d \in 0..(m[3] - 1) : a[m[1] + d] = b[m[2] + d]}
    IN IF blocks = {} THEN <<alo, blo, 0>>
       ELSE CHOOSE m \in blocks :
              \A n \in blocks :
                 \/ m[3] > n[3]
                 \/ m[3] = n[3] /\ m[1] < n[1]
                 \/ m[3] = n[3] /\ m[1] = n[1] /\ m[2] <= n[2]

\* the sum of the sizes of get_matching_blocks()
RECURSIVE matches(_, _, _, _, _, _)
matches(a, b, alo, ahi, blo, bhi) ==
    LET m == find_longest_match(a, b, alo, ahi, blo, bhi)
    IN IF m[3] = 0 THEN 0
       ELSE m[3] + matches(a, b, alo, m[1] - 1, blo, m[2] - 1)
                 + matches(a, b, m[1] + m[3], ahi, m[2] + m[3], bhi)

\* SequenceMatcher(None, a, b).ratio() = 2.0 * matches / length, 1.0 for two
\* empty strings: the fraction num / den
ratio(a, b) ==
    IF Len(a) + Len(b) = 0 THEN [num |-> 1, den |-> 1]
    ELSE [num |-> 2 * matches(a, b, 1, Len(a), 1, Len(b)), den |-> Len(a) + Len(b)]

\* r > q and r >= percent / 100 on fractions
ratio_gt(r, q) == r.num * q.den > q.num * r.den
ratio_ge(r, percent) == r.num * 100 >= percent * r.den

NoSimilarity == [num |-> 0, den |-> 0]
NoCandidate == <<"none">>

Canonicalization(canonical, corrected, method, best_similarity, needs_review) ==
    [canonical |-> canonical, corrected |-> corrected, method |-> method,
     best_similarity |-> best_similarity, needs_review |-> needs_review]

\* candidates_by_loose.get(raw_loose): setdefault keeps the first candidate of
\* each loose form
loose_get(candidates, raw_loose) ==
    LET hits == {i \in 1..Len(candidates) : _norm_loose(candidates[i]) = raw_loose}
    IN IF hits = {} THEN NoCandidate
       ELSE candidates[CHOOSE i \in hits : \A j \in hits : i <= j]

\* for c in candidates: ... if ratio > best_ratio: best_ratio = ratio; best = c
RECURSIVE best_from(_, _, _, _)
best_from(candidates, raw_loose, i, found) ==
    IF i > Len(candidates) THEN found
    ELSE LET r == ratio(_norm_loose(candidates[i]), raw_loose)
         IN best_from(candidates, raw_loose, i + 1,
                      IF ratio_gt(r, found.best_ratio)
                      THEN [best |-> candidates[i], best_ratio |-> r]
                      ELSE found)

_canonicalize_part_number_indexed(candidates, raw_cell) ==
    LET raw == strip(raw_cell)
        raw_upper == upper(raw)
        raw_loose == _norm_loose(raw_upper)
        mapped == loose_get(candidates, raw_loose)
        found == best_from(candidates, raw_loose, 1,
                           [best |-> NoCandidate, best_ratio |-> [num |-> 0, den |-> 1]])
    IN IF raw = <<>>
       THEN Canonicalization(<<>>, FALSE, "empty", NoSimilarity, FALSE)
       ELSE IF \E i \in 1..Len(candidates) : candidates[i] = raw_upper
       THEN Canonicalization(raw_upper, FALSE, "exact", NoSimilarity, FALSE)
       ELSE IF mapped # NoCandidate /\ mapped # <<>>
       THEN Canonicalization(mapped, FALSE, "loose", NoSimilarity, FALSE)
       ELSE IF found.best \notin {NoCandidate, <<>>} /\ ratio_ge(found.best_ratio, 92)
       THEN Canonicalization(found.best, TRUE, "fuzzy", found.best_ratio, FALSE)
       ELSE IF found.best \notin {NoCandidate, <<>>} /\ ratio_ge(found.best_ratio, 90)
       THEN Canonicalization(found.best, TRUE, "fuzzy_low", found.best_ratio, TRUE)
       ELSE Canonicalization(raw_upper, FALSE, "unverified", NoSimilarity, TRUE)

\* the tokens of part-number shape that the text of a page may hold
PageTokens ==
    {<<"A", "B", "1", "2", "3", "4">>, <<"A", "B", "1", "2", "3">>,
     <<"A", "0", "B", "1", "2">>, <<"1", "O", "1", "-", "2", "X">>, <<"X", "9">>}

\* _extract_candidate_tokens_from_pdf_page: the candidates of a page
CandidateLists ==
    {sorted(tokens) : tokens \in {S \in SUBSET PageTokens : Cardinality(S) <= MaxCandidates}}

\* the part-number cells of the rows of such a page, as extracted by
\* coordinates and stripped: a token as printed, in lower case, with a space
\* or a dash of another width inside, with an O read for a 0 or a 0 for an O,
\* with a character more or a character less, and a cell unlike all tokens
CellsOf(token) ==
    {token, lower(token),
     <<Head(token), " ">> \o Tail(token),
     [i \in 1..Len(token) |-> IF token[i] = "-" THEN EnDash ELSE token[i]],
     [i \in 1..Len(token) |-> IF token[i] = "0" THEN "O"
                              ELSE IF token[i] = "O" THEN "0" ELSE token[i]],
     token \o <<"5">>, token \o <<"C">>, lower(token) \o <<"c">>,
     SubSeq(token, 1, Len(token) - 1)}

RawCells ==
    UNION {CellsOf(token) : token \in PageTokens}
        \cup {<<>>, <<"Z", "Z", "9">>, <<"z", "z", "9">>}

NoCanon == [candidates |-> <<>>, raw |-> <<>>,
            result |-> Canonicalization(<<>>, FALSE, "empty", NoSimilarity, FALSE)]

(***************************************************************************)
(* State                                                                   *)
(***************************************************************************)
VARIABLES
    bstate,     \* build_db: [db, stacks] of the run in progress
    bdoc,       \* build_db: document_id of the PDF being read (0 before the first)
    blast,      \* build_db: the record processed last, or NoRec
    canon,      \* build_db: the last part-number cell canonicalized, with its result
    live,       \* the live store: documents, pages, parts, xrefs, aliases
    files,      \* the PDF directory: relative path -> bytes of the file, or NoFile
    icalls,     \* number of ingest_pdfs calls made so far
    fchanges,   \* number of changes made to the files from outside so far
    ilast,      \* the last ingest_pdfs call: its arguments, outcome and the store before it
    store_schema, \* which tables and columns the store file carries
    scan_state, \* table scan_state: relative path -> (size, mtime), NoRow where no row
    dirs,       \* the sub-directories that exist under the PDF directory
    imp,        \* ImportService: _jobs, _job_order, _queue and its settings
    scn,        \* ScanService: _jobs, _job_order, _queue and its settings
    staged,     \* upload directory: job id -> bytes of the staged file, or NoFile
    bak,        \* upload directory: bytes of the .bak file, or NoFile
    locks,      \* threading.Lock objects: name -> holding thread, or Free
    iw,         \* the import worker thread: position and locals of _run_one
    sw,         \* the scan worker thread: position and locals of _run_one
    api,        \* the thread of an API caller inside delete_document or _relocate_document
    reply,      \* the error the last call of a service method raised, NoReply if none
    render,     \* RenderService: free permits of _semaphore and the threads in render_page
    bdel,       \* handle_docs_batch_delete: its paths, what delete_document did, its payload
    cache,      \* CacheService: _cache in its order, _hits, _misses, and the clock
    enablement  \* create_server: the config, what is writable, and what it resolved

cvars == <<render, bdel, cache, enablement>>
bvars == <<bstate, bdoc, blast, canon, cvars>>
ivars == <<live, files, icalls, fchanges, ilast>>
svars == <<store_schema, scan_state, dirs, imp, scn, staged, bak, locks, iw, sw, api, reply>>
vars == <<bstate, bdoc, blast, canon, live, files, icalls, fchanges, ilast,
          store_schema, scan_state, dirs, imp, scn, staged, bak, locks, iw, sw, api, reply,
          render, bdel, cache, enablement>>

NoRec == [page_num |-> 0, nom_level |-> 0, data |-> 0]

(***************************************************************************)
(* ImportService and ScanService: settings, job tables, files, lock        *)
(* The upload directory is a directory of its own, outside the PDF         *)
(* directory.                                                              *)
(***************************************************************************)
\* queue.Queue(maxsize=64) of ScanService
ScanQueueSize == 64

Free == "free"

\* create_server: the lock object it hands to each service as db_write_lock.
\* A service that is handed none makes its own (db_write_lock or threading.Lock())
OwnLocks == [import |-> "ImportService.Lock", scan |-> "ScanService.Lock"]

create_server == [import |-> "db_write_lock", scan |-> "db_write_lock"]

LockNames == {"db_write_lock", "ImportService.Lock", "ScanService.Lock"}

\* the store file: as ensure_schema of build_db.py creates it (no scan_state
\* table, no documents.relative_path column), or a file that already carries
\* the table and the column the SQL of the services names
CreatedSchema == [tables |-> TRUE, scan_state |-> FALSE, relative_path |-> FALSE,
                  relative_path_unique |-> FALSE]
DeployedSchema == [tables |-> TRUE, scan_state |-> TRUE, relative_path |-> TRUE,
                   relative_path_unique |-> TRUE]
\* a file sqlite3.connect has just created, and a file whose documents table
\* has the column relative_path and no unique index on it
EmptyFile == [tables |-> FALSE, scan_state |-> FALSE, relative_path |-> FALSE,
              relative_path_unique |-> FALSE]
LegacySchema == [tables |-> TRUE, scan_state |-> FALSE, relative_path |-> TRUE,
                 relative_path_unique |-> FALSE]

Terminal == {"success", "failed"}
Active == {"queued", "running"}

NoSummary == [none |-> TRUE]
NoError == ""

\* ensure_schema(conn): CREATE TABLE / INDEX IF NOT EXISTS for documents, pages,
\* parts, xrefs, aliases and their indexes; no statement reads or writes a row
ensure_schema(schema, db) ==
    [error |-> NoError, schema |-> [schema EXCEPT !.tables = TRUE], db |-> db]

\* ImportJob(...) and ScanJob(...) as submit_upload and submit_scan create them
ImportJob(relative_path) ==
    [relative_path |-> relative_path, status |-> "queued", error |-> NoError,
     summary |-> NoSummary]

ScanJob(path) ==
    [path |-> path, status |-> "queued", error |-> NoError, summary |-> NoSummary]

\* the directories a service can be given: the PDF directory, and an upload
\* directory outside it
PdfDir == "data/pdfs"
UploadsDir == "data/uploads"

\* the fields of a service set by __init__; submitted counts the job ids handed out
\* ImportService(db_path, pdf_dir, upload_dir=UploadsDir, queue_size, ...)
ImportService(queue_size, max_jobs_retained) ==
    [jobs |-> <<>>, job_order |-> <<>>, queue |-> <<>>, submitted |-> 0,
     queue_size |-> queue_size, max_jobs_retained |-> max_jobs_retained,
     stop_event |-> FALSE, upload_dir |-> UploadsDir]

\* ImportService(db_path, pdf_dir, upload_dir=None, ...): self._upload_dir =
\* upload_dir or pdf_dir
DefaultImportService(queue_size, max_jobs_retained) ==
    [ImportService(queue_size, max_jobs_retained) EXCEPT !.upload_dir = PdfDir]

ScanService(max_jobs_retained) ==
    [jobs |-> <<>>, job_order |-> <<>>, queue |-> <<>>, submitted |-> 0,
     queue_size |-> ScanQueueSize, max_jobs_retained |-> max_jobs_retained,
     stop_event |-> FALSE]

\* the queue entry "__stop__" (job ids count from 1)
Sentinel == 0

\* queue.Queue.get: the entry put first, and the entries left
queue_get_last(q) == [item |-> q[Len(q)], rest |-> SubSeq(q, 1, Len(q) - 1)]
queue_get(q) == [item |-> Head(q), rest |-> Tail(q)]

\* dict and list primitives
Put(f, k, v) == [x \in DOMAIN f \cup {k} |-> IF x = k THEN v ELSE f[x]]
Pop(f, k) == [x \in DOMAIN f \ {k} |-> f[x]]
RemoveAt(seq, idx) == SubSeq(seq, 1, idx - 1) \o SubSeq(seq, idx + 1, Len(seq))

\* a prune that drops the oldest jobs whatever their status
PruneOldest(svc) ==
    LET n == Len(svc.job_order)
        drop == IF n > svc.max_jobs_retained THEN n - svc.max_jobs_retained ELSE 0
        gone == {svc.job_order[i] : i \in 1..drop}
    IN [svc EXCEPT !.job_order = SubSeq(svc.job_order, drop + 1, n),
                   !.jobs = [j \in DOMAIN svc.jobs \ gone |-> svc.jobs[j]]]

\* the while loop of _prune_jobs_locked from index idx on (idx is 1-based here)
RECURSIVE prune_loop(_, _)
prune_loop(svc, idx) ==
    IF ~(Len(svc.job_order) > svc.max_jobs_retained /\ idx <= Len(svc.job_order))
    THEN svc
    ELSE LET job_id == svc.job_order[idx]
         IN IF job_id \in DOMAIN svc.jobs /\ svc.jobs[job_id].status \in Terminal
            THEN prune_loop([svc EXCEPT !.job_order = RemoveAt(svc.job_order, idx),
                                        !.jobs = Pop(svc.jobs, job_id)], idx)
            ELSE prune_loop(svc, idx + 1)

\* _prune_jobs_locked of ImportService; the one of ScanService is the same code
prune_jobs_locked(svc) ==
    IF Len(svc.job_order) <= svc.max_jobs_retained THEN svc ELSE prune_loop(svc, 1)

\* list_jobs(limit): the ids and states of the most recent jobs, newest first
list_jobs(svc, limit) ==
    LET n == Len(svc.job_order)
        k == IF limit < 1 THEN 1 ELSE limit
        recent_ids == SubSeq(svc.job_order, IF n > k THEN n - k + 1 ELSE 1, n)
        m == Len(recent_ids)
        kept == SelectSeq([i \in 1..m |-> recent_ids[m + 1 - i]],
                          LAMBDA jid : jid \in DOMAIN svc.jobs)
    IN [i \in 1..Len(kept) |->
          [job_id |-> kept[i], status |-> svc.jobs[kept[i]].status,
           error |-> svc.jobs[kept[i]].error]]

\* the files the services touch: fs = [files, dirs, staged, bak]
\* _restore_backup_file(backup_path, final_path) that restores nothing
restore_backup_skipped(fs, backup_path, final_path) == fs

\* _restore_backup_file(backup_path, final_path); backup_path is FALSE for None
restore_backup_file(fs, backup_path, final_path) ==
    IF ~backup_path \/ fs.bak = NoFile THEN fs
    ELSE [fs EXCEPT !.files[final_path] = fs.bak, !.bak = NoFile]

\* _promote_uploaded_file(staged_path, final_path) of the job job_id.
\* result [fs, backup_path, raised]; it raises when the staged file cannot be moved
promote_uploaded_file(fs, job_id, final_path) ==
    LET exists == fs.files[final_path] # NoFile
        made == [fs EXCEPT !.dirs = @ \cup {final_path.dir}]
        backed == IF exists
                  THEN [made EXCEPT !.bak = fs.files[final_path],
                                    !.files[final_path] = NoFile]
                  ELSE made
    IN IF fs.staged[job_id] # NoFile
       THEN [fs |-> [backed EXCEPT !.files[final_path] = fs.staged[job_id],
                                   !.staged[job_id] = NoFile],
             backup_path |-> exists, raised |-> FALSE]
       ELSE [fs |-> restore_backup_file(backed, exists, final_path),
             backup_path |-> FALSE, raised |-> TRUE]

\* (st_size, st_mtime) of a file
st_size(content) == IF content = 3 THEN 1 ELSE IF content = 4 THEN 3 ELSE content
st_mtime(content) == IF content = 4 THEN 2 ELSE content
stat(content) == [size |-> st_size(content), mtime |-> st_mtime(content)]

\* no row of scan_state for a path
NoRow == [size |-> 0, mtime |-> 0]

\* base.rglob("*.pdf") for base = pdf_dir / path: the files below base
UnderBase(path, p) == path = "" \/ p.dir = path
walk(fs_files, path) == {p \in Paths : UnderBase(path, p) /\ fs_files[p] # NoFile}

\* staged_path = self._upload_dir / f"{job_id}__{safe_name}" for the file name
\* a.pdf: the name of the staged file of each job (job ids stand for the uuids)
StagedNames == <<"1__a.pdf", "2__a.pdf", "3__a.pdf", "4__a.pdf">>
StagedPath(job_id) == [dir |-> "", name |-> StagedNames[job_id]]
StagedJob(path) == CHOOSE j \in 1..Len(StagedNames) : StagedNames[j] = path.name

\* what base.rglob("*.pdf") finds besides the documents: the staged files, when
\* the upload directory is the PDF directory and base is that directory (the
\* name of a backup file ends in .bak)
walk_staged(svc, fs_staged, path) ==
    IF svc.upload_dir = PdfDir /\ path = ""
    THEN {StagedPath(j) : j \in {k \in DOMAIN fs_staged : fs_staged[k] # NoFile}}
    ELSE {}

\* the bytes of the file at a path of the PDF directory
FileAt(fs_files, fs_staged, p) ==
    IF p \in Paths THEN fs_files[p]
    ELSE IF StagedJob(p) \in DOMAIN fs_staged THEN fs_staged[StagedJob(p)]
    ELSE NoFile

\* the row of scan_state for a path
RowAt(table, p) == IF p \in DOMAIN table THEN table[p] ELSE NoRow

IdleImportWorker ==
    [pc |-> "idle", job |-> 0, final_path |-> NullPath, backup_path |-> FALSE,
     final_promoted |-> FALSE, before |-> NoFile, payload |-> NoFile,
     error |-> NoError, summary |-> NoSummary]

IdleScanWorker ==
    [pc |-> "idle", job |-> 0, path |-> "", entries |-> [p \in {} |-> NoRow],
     changed_paths |-> <<>>, error |-> NoError,
     summary |-> NoSummary]

NoCounts == [pages |-> 0, parts |-> 0, xrefs |-> 0, aliases |-> 0]

IdleApi ==
    [pc |-> "idle", calls |-> 0, source |-> NullPath, target |-> NullPath,
     raw_pdf_path |-> NullPath, deleted_counts |-> NoCounts, result |-> "",
     source_file |-> NullPath, before |-> NoFile]

NoReply == [op |-> "", code |-> "", job |-> 0, queue_full |-> FALSE]

InitServices(queue_size, max_jobs_retained) ==
    /\ dirs = {""}
    /\ imp = ImportService(queue_size, max_jobs_retained)
    /\ scn = ScanService(max_jobs_retained)
    /\ staged = <<>>
    /\ bak = NoFile
    /\ locks = [l \in LockNames |-> Free]
    /\ iw = IdleImportWorker
    /\ sw = IdleScanWorker
    /\ api = IdleApi
    /\ reply = NoReply

(***************************************************************************)
(* SpecHier: build_db reading the records of up to MaxBuildDocs PDFs       *)
(***************************************************************************)
NoCall == [inputs |-> <<>>, fault |-> 0, ok |-> TRUE, merged |-> 0, replaced |-> 0,
           before |-> EmptyStore]

(***************************************************************************)
(* RenderService: render_page called by the threads of the HTTP server     *)
(***************************************************************************)
\* config.render_semaphore, and the request threads
render_semaphore == 2
Renderers == {"t1", "t2", "t3"}

\* what a render_page call ended with
RenderOutcomes == {"cache_path", "PdfNotFoundError", "PageNotFoundError", "RenderError"}

\* RenderService.__init__: BoundedSemaphore(config.render_semaphore)
IdleRender ==
    [permits |-> render_semaphore,
     pc |-> [t \in Renderers |-> "idle"],
     outcome |-> [t \in Renderers |-> ""],
     calls |-> 0]

(***************************************************************************)
(* ApiHandlers.handle_docs_batch_delete(paths)                             *)
(***************************************************************************)
\* an entry of `paths` as the JSON body gives it: a number, or a string
RawPaths == {[type |-> "int", value |-> <<"7">>],
             [type |-> "str", value |-> <<" ">>],
             [type |-> "str", value |-> <<" ", "a", " ">>]}

\* what self._import.delete_document(path) does: it returns a detail with
\* deleted true or false, or raises
DeleteOutcomes == {"deleted", "not_deleted", "ValidationError", "NotFoundError",
                   "ConflictError", "OperationalError"}

\* e.code of the exceptions the handler names
error_code(exception) ==
    CASE exception = "ValidationError" -> "VALIDATION_ERROR"
      [] exception = "NotFoundError" -> "NOT_FOUND"
      [] exception = "ConflictError" -> "CONFLICT"

NoPayload == [total |-> 0, deleted |-> 0, failed |-> 0, results |-> <<>>, raised |-> ""]
IdleBatch == [paths |-> <<>>, outcomes |-> <<>>, payload |-> NoPayload, pc |-> "idle"]

\* the for loop without its except Exception branch: an unexpected error of
\* delete_document leaves the handler
RECURSIVE batch_delete_unguarded(_, _, _)
batch_delete_unguarded(paths, outcomes, acc) ==
    IF paths = <<>>
    THEN [acc EXCEPT !.failed = acc.total - acc.deleted]
    ELSE IF Head(paths).type = "str" /\ strip(Head(paths).value) # <<>>
            /\ Head(outcomes) = "OperationalError"
    THEN [NoPayload EXCEPT !.raised = "OperationalError"]
    ELSE LET raw_path == Head(paths)
             path == strip(raw_path.value)
             outcome == Head(outcomes)
             item == IF raw_path.type # "str"
                     THEN [path |-> raw_path.value, ok |-> FALSE,
                           error_code |-> "VALIDATION_ERROR"]
                     ELSE IF path = <<>>
                     THEN [path |-> path, ok |-> FALSE, error_code |-> "VALIDATION_ERROR"]
                     ELSE IF outcome = "deleted"
                     THEN [path |-> path, ok |-> TRUE, error_code |-> ""]
                     ELSE IF outcome = "not_deleted"
                     THEN [path |-> path, ok |-> FALSE, error_code |-> "NOT_FOUND"]
                     ELSE [path |-> path, ok |-> FALSE, error_code |-> error_code(outcome)]
         IN batch_delete_unguarded(Tail(paths), Tail(outcomes),
                [acc EXCEPT !.results = Append(@, item),
                            !.deleted = IF item.ok THEN @ + 1 ELSE @])

\* the for loop of handle_docs_batch_delete and the payload built after it
RECURSIVE batch_delete(_, _, _)
batch_delete(paths, outcomes, acc) ==
    IF paths = <<>>
    THEN [acc EXCEPT !.failed = acc.total - acc.deleted]
    ELSE LET raw_path == Head(paths)
             path == strip(raw_path.value)
             outcome == Head(outcomes)
             item == IF raw_path.type # "str"
                     THEN [path |-> raw_path.value, ok |-> FALSE,
                           error_code |-> "VALIDATION_ERROR"]
                     ELSE IF path = <<>>
                     THEN [path |-> path, ok |-> FALSE, error_code |-> "VALIDATION_ERROR"]
                     ELSE IF outcome = "deleted"
                     THEN [path |-> path, ok |-> TRUE, error_code |-> ""]
                     ELSE IF outcome = "not_deleted"
                     THEN [path |-> path, ok |-> FALSE, error_code |-> "NOT_FOUND"]
                     ELSE IF outcome \in {"ValidationError", "NotFoundError", "ConflictError"}
                     THEN [path |-> path, ok |-> FALSE, error_code |-> error_code(outcome)]
                     ELSE [path |-> path, ok |-> FALSE, error_code |-> "INTERNAL_ERROR"]
         IN batch_delete(Tail(paths), Tail(outcomes),
                [acc EXCEPT !.results = Append(@, item),
                            !.deleted = IF item.ok THEN @ + 1 ELSE @])

\* handle_docs_batch_delete(paths) with an import service
handle_docs_batch_delete ==
    /\ bdel.pc = "idle"
    /\ bdel' = [bdel EXCEPT
                   !.pc = "returned",
                   !.payload =
                      IF bdel.paths = <<>>
                      THEN [NoPayload EXCEPT !.raised = "ValidationError"]
                      ELSE batch_delete(bdel.paths, bdel.outcomes,
                                        [NoPayload EXCEPT !.total = Len(bdel.paths)])]
    /\ UNCHANGED <<bstate, bdoc, blast, canon, render, cache, enablement, ivars, svars>>

(***************************************************************************)
(* CacheService: an OrderedDict of CacheEntry, oldest first                *)
(***************************************************************************)
\* max_size of the CacheService, and what its callers pass in
max_size == 2
CacheKeys == {"a", "b", "c"}
CacheValues == {1, 2}
TTLs == {0 - 1, 0, 1}
\* the None that get returns
None == 0

\* CacheService.__init__; `now` is time.time(), `gets` and `ops` count the calls
\* of get and of all methods, used[key] is the number of the call that last set
\* the key or found it
EmptyCache ==
    [entries |-> <<>>, hits |-> 0, misses |-> 0, gets |-> 0, ops |-> 0, now |-> 0,
     used |-> [k \in CacheKeys |-> 0],
     last |-> [op |-> "", key |-> "", returned |-> None, evicted |-> {}]]

\* the keys of self._cache, and self._cache.get(key) as a set of entries
keys(entries) == {entries[i].key : i \in 1..Len(entries)}
entry_of(entries, key) == {entries[i] : i \in {j \in 1..Len(entries) : entries[j].key = key}}

\* del self._cache[key]
del(entries, key) == SelectSeq(entries, LAMBDA e : e.key # key)

\* CacheEntry.is_expired with the test of ttl <= 0 left out
is_expired_any_ttl(entry, now) == now - entry.created_at > entry.ttl

\* CacheEntry.is_expired
is_expired(entry, now) ==
    IF entry.ttl <= 0 THEN FALSE ELSE now - entry.created_at > entry.ttl

\* a get that leaves the order of the entries alone
keep_order(entries, key) == entries

\* self._cache.move_to_end(key)
move_to_end(entries, key) ==
    del(entries, key) \o SelectSeq(entries, LAMBDA e : e.key = key)

\* while len(self._cache) >= self._max_size: del self._cache[next(iter(self._cache))]
RECURSIVE evict(_)
evict(entries) == IF Len(entries) >= max_size THEN evict(Tail(entries)) ELSE entries

\* CacheService.get(key)
CacheGet(key) ==
    /\ cache.ops < MaxCacheOps
    /\ LET found == entry_of(cache.entries, key)
           entry == CHOOSE e \in found : TRUE
           miss == found = {} \/ is_expired(entry, cache.now)
       IN cache' = [cache EXCEPT
                      !.entries = IF found = {} THEN @
                                  ELSE IF is_expired(entry, cache.now) THEN del(@, key)
                                  ELSE move_to_end(@, key),
                      !.hits = IF miss THEN @ ELSE @ + 1,
                      !.misses = IF miss THEN @ + 1 ELSE @,
                      !.gets = @ + 1,
                      !.ops = @ + 1,
                      !.used[key] = IF miss THEN @ ELSE cache.ops + 1,
                      !.last = [op |-> "get", key |-> key,
                                returned |-> IF miss THEN None ELSE entry.value,
                                evicted |-> {}]]
    /\ UNCHANGED <<bstate, bdoc, blast, canon, render, bdel, enablement, ivars, svars>>

\* CacheService.set(key, value, ttl)
CacheSet(key, value, ttl) ==
    /\ cache.ops < MaxCacheOps
    /\ LET kept == evict(del(cache.entries, key))
       IN cache' = [cache EXCEPT
                      !.entries = Append(kept, [key |-> key, value |-> value,
                                                created_at |-> cache.now, ttl |-> ttl]),
                      !.ops = @ + 1,
                      !.used[key] = cache.ops + 1,
                      !.last = [op |-> "set", key |-> key, returned |-> None,
                                evicted |-> keys(cache.entries) \ (keys(kept) \cup {key})]]
    /\ UNCHANGED <<bstate, bdoc, blast, canon, render, bdel, enablement, ivars, svars>>

\* CacheService.delete(key)
CacheDelete(key) ==
    /\ cache.ops < MaxCacheOps
    /\ cache' = [cache EXCEPT
                   !.entries = del(@, key),
                   !.ops = @ + 1,
                   !.last = [op |-> "delete", key |-> key,
                             returned |-> IF key \in keys(cache.entries) THEN 1 ELSE None,
                             evicted |-> {}]]
    /\ UNCHANGED <<bstate, bdoc, blast, canon, render, bdel, enablement, ivars, svars>>

\* a second passes on the clock time.time() reads
Tick ==
    /\ cache.now < MaxClock
    /\ cache' = [cache EXCEPT !.now = @ + 1]
    /\ UNCHANGED <<bstate, bdoc, blast, canon, render, bdel, enablement, ivars, svars>>

(***************************************************************************)
(* create_server: _resolve_import_enablement(config) and the services      *)
(***************************************************************************)
\* config.import_mode as the environment gives it
ImportModes == {"", "auto", "enabled", "disabled", " Disabled ", "on"}

\* (config.import_mode or "auto").strip().lower(), "auto" when it is not a mode
import_mode(raw) ==
    CASE raw \in {"disabled", " Disabled "} -> "disabled"
      [] raw = "enabled" -> "enabled"
      [] OTHER -> "auto"

NoResolution == [enabled |-> FALSE, reason |-> "", scan_enabled |-> FALSE, probed |-> {}]
Unresolved ==
    [config |-> [import_mode |-> "", pdf_dir |-> TRUE],
     writable |-> [db |-> TRUE, pdf |-> TRUE, upload |-> TRUE],
     pc |-> "start", resolved |-> NoResolution]

\* _resolve_import_enablement with the upload directory left out of the
\* write requirements
_resolve_import_enablement_no_upload(config, writable) ==
    LET mode == import_mode(config.import_mode)
        enabled == writable.db /\ config.pdf_dir /\ writable.pdf
    IN IF mode = "disabled"
       THEN [enabled |-> FALSE, reason |-> "disabled_by_config", probed |-> {}]
       ELSE [enabled |-> enabled,
             reason |-> IF enabled THEN ""
                        ELSE IF mode = "enabled"
                        THEN "enabled_but_write_requirements_not_met"
                        ELSE "auto_disabled_due_to_write_requirements",
             probed |-> {"db"} \cup (IF config.pdf_dir THEN {"pdf"} ELSE {})]

\* _resolve_import_enablement(config): enabled, details["reason"] ("" when the
\* key is absent) and the writability probes it ran
_resolve_import_enablement(config, writable) ==
    LET mode == import_mode(config.import_mode)
        db_writable == writable.db
        pdf_writable == IF config.pdf_dir THEN writable.pdf ELSE FALSE
        upload_writable == writable.upload
        enabled == db_writable /\ (pdf_writable /\ upload_writable)
    IN IF mode = "disabled"
       THEN [enabled |-> FALSE, reason |-> "disabled_by_config", probed |-> {}]
       ELSE [enabled |-> enabled,
             reason |-> IF mode = "enabled" /\ ~enabled
                        THEN "enabled_but_write_requirements_not_met"
                        ELSE IF mode = "auto" /\ ~enabled
                        THEN "auto_disabled_due_to_write_requirements"
                        ELSE "",
             probed |-> {"db", "upload"} \cup (IF config.pdf_dir THEN {"pdf"} ELSE {})]

\* create_server: the import service and the scan service are created together
\* when import is enabled
ResolveEnablement ==
    /\ enablement.pc = "start"
    /\ LET r == _resolve_import_enablement(enablement.config, enablement.writable)
       IN enablement' = [enablement EXCEPT
                           !.pc = "resolved",
                           !.resolved = [enabled |-> r.enabled, reason |-> r.reason,
                                         scan_enabled |-> r.enabled,
                                         probed |-> r.probed]]
    /\ UNCHANGED <<bstate, bdoc, blast, canon, render, bdel, cache, ivars, svars>>

InitCollaborators ==
    /\ render = IdleRender /\ bdel = IdleBatch /\ cache = EmptyCache
    /\ enablement = Unresolved

\* render_page(pdf_name, page, scale) up to self._semaphore.acquire: the cached
\* file is returned, a free permit is taken, or the thread waits for one
render_page(t, cached) ==
    /\ render.pc[t] = "idle"
    /\ render.calls < MaxRenderCalls
    /\ render' =
         IF cached
         THEN [render EXCEPT !.outcome[t] = "cache_path", !.calls = @ + 1]
         ELSE IF render.permits > 0
         THEN [render EXCEPT !.permits = @ - 1, !.pc[t] = "_do_render",
                             !.outcome[t] = "", !.calls = @ + 1]
         ELSE [render EXCEPT !.pc[t] = "acquire", !.outcome[t] = "", !.calls = @ + 1]
    /\ UNCHANGED <<bstate, bdoc, blast, canon, bdel, cache, enablement, ivars, svars>>

\* the waiting acquire(timeout=render_timeout) gets a permit that was released
RenderAcquire(t) ==
    /\ render.pc[t] = "acquire"
    /\ render.permits > 0
    /\ render' = [render EXCEPT !.permits = @ - 1, !.pc[t] = "_do_render"]
    /\ UNCHANGED <<bstate, bdoc, blast, canon, bdel, cache, enablement, ivars, svars>>

\* render_timeout has passed: acquire returns False and render_page raises
\* RenderError("Render timeout - too many concurrent requests")
RenderTimeout(t) ==
    /\ render.pc[t] = "acquire"
    /\ render' = [render EXCEPT !.pc[t] = "idle", !.outcome[t] = "RenderError"]
    /\ UNCHANGED <<bstate, bdoc, blast, canon, bdel, cache, enablement, ivars, svars>>

\* return self._do_render(...) with the release left out when it raises
RenderEndsNoFinally(t, outcome) ==
    /\ render.pc[t] = "_do_render"
    /\ render' = [render EXCEPT
                    !.permits = IF outcome = "cache_path" THEN @ + 1 ELSE @,
                    !.pc[t] = "idle", !.outcome[t] = outcome]
    /\ UNCHANGED <<bstate, bdoc, blast, canon, bdel, cache, enablement, ivars, svars>>

\* try: return self._do_render(...) finally: self._semaphore.release()
RenderEnds(t, outcome) ==
    /\ render.pc[t] = "_do_render"
    /\ render' = [render EXCEPT !.permits = @ + 1, !.pc[t] = "idle",
                                !.outcome[t] = outcome]
    /\ UNCHANGED <<bstate, bdoc, blast, canon, bdel, cache, enablement, ivars, svars>>

InitBuild ==
    /\ bstate = [db |-> EmptyStore, stacks |-> <<>>]
    /\ bdoc = 0
    /\ blast = NoRec
    /\ canon = NoCanon
    /\ InitCollaborators

InitStore ==
    /\ live = EmptyStore
    /\ icalls = 0
    /\ fchanges = 0
    /\ ilast = NoCall

InitHier ==
    /\ InitBuild /\ InitStore /\ files = [p \in Paths |-> NoFile]
    /\ store_schema = CreatedSchema /\ InitServices(1, 2)
    /\ scan_state = [p \in Paths |-> NoRow]

\* for pdf_path in pdf_paths: INSERT INTO documents ...; hier_stack_by_fig = {}
BuildOpenDocument ==
    /\ bdoc < MaxBuildDocs
    /\ LET document_id == NextRowId(bstate.db.documents)
       IN /\ bdoc' = document_id
          /\ bstate' = [db |-> [bstate.db EXCEPT !.documents =
                                  @ \cup {[id |-> document_id, pdf_name |-> document_id,
                                           pdf_path |-> document_id,
                                           relative_path |-> NullPath]}],
                        stacks |-> <<>>]
    /\ blast' = NoRec
    /\ UNCHANGED <<canon, cvars, ivars, svars>>

\* for rec in _iter_coords_records(doc): ...
\* records come in page order
BuildRecord ==
    /\ bdoc > 0
    /\ Cardinality(bstate.db.parts) < MaxRows
    /\ \E rec \in Rec :
        /\ rec.page_num >= blast.page_num
        /\ bstate' = build_db_rec(bstate, bdoc, rec)
        /\ blast' = rec
    /\ UNCHANGED <<bdoc, canon, cvars, ivars, svars>>

NextHier == BuildOpenDocument \/ BuildRecord

SpecHier == InitHier /\ [][NextHier]_vars

(***************************************************************************)
(* SpecCanon: build_db canonicalizes the part-number cells of the rows of  *)
(* a page against the candidates of the page                               *)
(***************************************************************************)
\* a row whose part-number cell is yet to be canonicalized
NoResult == [method |-> "pending"]

\* pn_canon = _canonicalize_part_number_indexed(candidates, ..., raw=part_number_extracted)
CanonicalizeCell ==
    /\ canon.result = NoResult
    /\ canon' = [canon EXCEPT !.result =
                    _canonicalize_part_number_indexed(canon.candidates, canon.raw)]
    /\ UNCHANGED <<bstate, bdoc, blast, cvars, ivars, svars>>

InitCanon ==
    /\ bstate = [db |-> EmptyStore, stacks |-> <<>>] /\ bdoc = 1 /\ blast = NoRec
    /\ canon \in [candidates : CandidateLists, raw : RawCells, result : {NoResult}]
    /\ InitCollaborators
    /\ InitStore /\ files = [p \in Paths |-> NoFile]
    /\ store_schema = CreatedSchema /\ InitServices(1, 2)
    /\ scan_state = [p \in Paths |-> NoRow]

NextCanon == CanonicalizeCell

SpecCanon == InitCanon /\ [][NextCanon]_vars

(***************************************************************************)
(* SpecIngest: ingest_pdfs called on batches of the files of the directory *)
(***************************************************************************)
\* str(path) of a relative path, for sorted(...)
PathOrder(path) ==
    IF path \notin Paths THEN StagedJob(path) - Len(StagedNames)
    ELSE IF path.dir = "" THEN (IF path.name = "a.pdf" THEN 1 ELSE 2) ELSE 3

\* the batches the callers pass: one promoted file (ImportService), or the
\* changed files of a directory walk in sorted order (ScanService)
Batches ==
    {<<p>> : p \in Paths}
      \cup {b \in Paths \X Paths : PathOrder(b[1]) < PathOrder(b[2])}

InputsOf(batch) == [i \in 1..Len(batch) |-> [path |-> batch[i], content |-> files[batch[i]]]]

\* a file appears, changes or disappears in the PDF directory between two
\* calls of ingest_pdfs
PutFile(p, c) ==
    /\ fchanges < icalls /\ icalls < MaxIngestCalls
    /\ files[p] # c
    /\ files' = [files EXCEPT ![p] = c]
    /\ fchanges' = fchanges + 1
    /\ UNCHANGED <<live, icalls, ilast, bvars, svars>>

\* with sqlite3.connect(...) as conn: ingest_pdfs(conn, batch),
\* for a batch of files present in the directory
IngestCall(batch, fault) ==
    /\ icalls < MaxIngestCalls
    /\ \A i \in 1..Len(batch) : files[batch[i]] # NoFile
    /\ fault <= Len(batch)
    /\ LET r == ingest_pdfs(live, InputsOf(batch), fault)
       IN /\ live' = r.committed
          /\ ilast' = [inputs |-> InputsOf(batch), fault |-> fault, ok |-> r.ok,
                       merged |-> r.merged, replaced |-> r.replaced, before |-> live]
    /\ icalls' = icalls + 1
    /\ UNCHANGED <<files, fchanges, bvars, svars>>

NextIngest ==
    \/ \E p \in Paths, c \in {NoFile} \cup Contents : PutFile(p, c)
    \/ \E batch \in Batches, fault \in 0..2 : IngestCall(batch, fault)

InitIngest ==
    /\ InitBuild /\ InitStore /\ files \in [Paths -> {NoFile} \cup Contents]
    /\ store_schema = CreatedSchema /\ InitServices(1, 2)
    /\ scan_state = [p \in Paths |-> NoRow]

SpecIngest == InitIngest /\ [][NextIngest]_vars

(***************************************************************************)
(* Spec: the server at work. Uploads and scans are submitted, the import   *)
(* worker and the scan worker run their jobs, an API caller deletes or     *)
(* relocates documents, and PDF files are removed from the directory by    *)
(* hand                                                                    *)
(***************************************************************************)
ScanDirs == {"", "engine"}

\* sorted(...) of a set of relative paths
SortedPaths(S) ==
    [i \in 1..Cardinality(S) |->
        CHOOSE p \in S : Cardinality({q \in S : PathOrder(q) <= PathOrder(p)}) = i]

FS == [files |-> files, dirs |-> dirs, staged |-> staged, bak |-> bak]

SetFS(fs) ==
    /\ files' = fs.files
    /\ dirs' = fs.dirs
    /\ staged' = fs.staged
    /\ bak' = fs.bak

\* the exception submit_upload raises on queue.Full, as IpcQueryError.to_dict
\* gives it: ValidationError(message), no details
import_queue_full_error ==
    [code |-> "VALIDATION_ERROR",
     message |-> "Import queue is full, please retry later",
     details |-> [k \in {} |-> 0]]

\* ImportService.submit_upload(filename, payload, content_type, target_dir) for a
\* valid upload whose target_dir / filename is path
submit_upload(path, payload) ==
    LET job_id == imp.submitted + 1
        registered == prune_jobs_locked(
                          [imp EXCEPT !.jobs = Put(imp.jobs, job_id, ImportJob(path)),
                                      !.job_order = Append(imp.job_order, job_id),
                                      !.submitted = job_id])
        full == Len(imp.queue) >= imp.queue_size
        rejected == prune_jobs_locked(
                        [registered EXCEPT !.jobs[job_id].status = "failed",
                                           !.jobs[job_id].error = "import queue is full"])
    IN /\ imp' = IF full THEN rejected
                 ELSE [registered EXCEPT !.queue = Append(registered.queue, job_id)]
       /\ staged' = Put(staged, job_id, IF full THEN NoFile ELSE payload)
       /\ reply' = IF full
                    THEN [op |-> "submit_upload", code |-> import_queue_full_error.code,
                          job |-> job_id, queue_full |-> TRUE]
                    ELSE NoReply
       /\ UNCHANGED <<bvars, ivars, store_schema, scan_state, dirs, scn, bak, locks,
                      iw, sw, api>>

\* the uploads that reach submit_upload: file names, target directories,
\* content types and payloads (the size cap is max_file_size_bytes = 1 unit)
Filenames == {"", " ", "bad.txt", "a.pdf", " x/a.pdf "}
TargetDirs == {"", "engine", "/engine/", "..", "engine/./x"}
ContentTypes == {"", "application/pdf", "application/octet-stream", "text/plain",
                 " Application/PDF "}
Payloads == {"", "%PDF-1", "%PDF-22", "bad"}
max_file_size_bytes == 1
payload_len(payload) ==
    CASE payload = "" -> 0 [] payload = "%PDF-22" -> 2 [] OTHER -> 1
startswith_pdf(payload) == payload \in {"%PDF-1", "%PDF-22"}
UploadRequests ==
    [filename : Filenames, target_dir : TargetDirs, content_type : ContentTypes,
     payload : Payloads]

\* Path((filename or "").strip()).name
path_name(filename) ==
    CASE filename \in {"", " "} -> "" [] filename = " x/a.pdf " -> "a.pdf"
      [] OTHER -> filename

\* _validate_and_normalize_filename: the error it raises, "" when none
_validate_and_normalize_filename(filename) ==
    IF path_name(filename) = "" THEN "Missing filename"
    ELSE IF path_name(filename) \notin {"a.pdf"} THEN "Only .pdf files are supported"
    ELSE ""

\* _normalize_target_dir: the parts of the directory, and the error it raises
target_dir_parts(target_dir) ==
    CASE target_dir = "" -> <<>>
      [] target_dir \in {"engine", "/engine/"} -> <<"engine">>
      [] target_dir = ".." -> <<"..">>
      [] target_dir = "engine/./x" -> <<"engine", ".", "x">>
      [] target_dir \in {"engine/sub", "engine\\sub/"} -> <<"engine", "sub">>
\* "/".join(parts)
join(parts) ==
    CASE parts = <<>> -> "" [] parts = <<"engine">> -> "engine"
      [] parts = <<"engine", "sub">> -> "engine/sub"
_normalize_target_dir(target_dir) ==
    IF \E i \in 1..Len(target_dir_parts(target_dir)) :
          target_dir_parts(target_dir)[i] \in {".", ".."}
    THEN "Invalid target_dir" ELSE ""

\* _validate_payload without the check of the signature
_validate_payload_unsigned(payload, content_type) ==
    IF payload = "" THEN "Empty file payload"
    ELSE IF payload_len(payload) > max_file_size_bytes THEN "File too large"
    ELSE IF content_type \in {"text/plain"} THEN "Unsupported content type"
    ELSE ""

\* _validate_payload: the error it raises, "" when none
_validate_payload(payload, content_type) ==
    IF payload = "" THEN "Empty file payload"
    ELSE IF payload_len(payload) > max_file_size_bytes THEN "File too large"
    ELSE IF content_type \in {"text/plain"} THEN "Unsupported content type"
    ELSE IF ~startswith_pdf(payload) THEN "Invalid PDF file signature"
    ELSE ""

\* submit_upload(filename, payload, content_type, target_dir): the three
\* validations, then the staging and queuing of a valid upload
submit_upload_request(req) ==
    LET errors == <<_validate_and_normalize_filename(req.filename),
                    _normalize_target_dir(req.target_dir),
                    _validate_payload(req.payload, req.content_type)>>
        path == [dir |-> join(target_dir_parts(req.target_dir)), name |-> "a.pdf"]
    IN IF \E i \in 1..3 : errors[i] # ""
       THEN /\ reply' = [op |-> "submit_upload", code |-> "VALIDATION_ERROR", job |-> 0,
                         queue_full |-> FALSE]
            /\ UNCHANGED <<bvars, ivars, store_schema, scan_state, dirs, imp, scn, staged,
                           bak, locks, iw, sw, api>>
       ELSE submit_upload(path, 2)

\* ScanService.submit_scan(path)
submit_scan(path) ==
    LET job_id == scn.submitted + 1
        registered == prune_jobs_locked(
                          [scn EXCEPT !.jobs = Put(scn.jobs, job_id, ScanJob(path)),
                                      !.job_order = Append(scn.job_order, job_id),
                                      !.submitted = job_id])
        full == Len(scn.queue) >= scn.queue_size
        rejected == prune_jobs_locked(
                        [registered EXCEPT !.jobs[job_id].status = "failed",
                                           !.jobs[job_id].error = "scan queue is full"])
    IN /\ IF path # "" /\ path \notin dirs
          THEN /\ reply' = [op |-> "submit_scan", code |-> "VALIDATION_ERROR", job |-> 0,
                            queue_full |-> FALSE]
               /\ scn' = scn
          ELSE /\ scn' = IF full THEN rejected
                         ELSE [registered EXCEPT !.queue = Append(registered.queue, job_id)]
               /\ reply' = IF full
                            THEN [op |-> "submit_scan", code |-> "VALIDATION_ERROR",
                                  job |-> job_id, queue_full |-> TRUE]
                            ELSE NoReply
       /\ UNCHANGED <<bvars, ivars, store_schema, scan_state, dirs, imp, staged, bak,
                      locks, iw, sw, api>>

\* ScanService._normalize_relative_dir(path): the error it raises, "" when none
_normalize_relative_dir(path) ==
    IF \E i \in 1..Len(target_dir_parts(path)) : target_dir_parts(path)[i] \in {".", ".."}
    THEN "Invalid path" ELSE ""

\* submit_scan(path) from its first line
submit_scan_request(path) ==
    IF _normalize_relative_dir(path) # ""
    THEN /\ reply' = [op |-> "submit_scan", code |-> "VALIDATION_ERROR", job |-> 0,
                      queue_full |-> FALSE]
         /\ UNCHANGED <<bvars, ivars, store_schema, scan_state, dirs, imp, scn, staged,
                        bak, locks, iw, sw, api>>
    ELSE submit_scan(join(target_dir_parts(path)))

\* ImportService._run_worker takes a job; _run_one marks it running and promotes
\* its staged file to the final path
ImportStart ==
    /\ iw.pc \in {"idle", "get"}
    /\ iw.pc = "idle" => ~imp.stop_event
    /\ imp.queue # <<>> /\ queue_get(imp.queue).item # Sentinel
    /\ LET job_id == queue_get(imp.queue).item
           final_path == imp.jobs[job_id].relative_path
           pr == promote_uploaded_file(FS, job_id, final_path)
       IN IF job_id \notin DOMAIN imp.jobs
          THEN /\ imp' = [imp EXCEPT !.queue = queue_get(imp.queue).rest]
               /\ iw' = [iw EXCEPT !.pc = "idle"]
               /\ UNCHANGED <<files, dirs, staged, bak>>
          ELSE /\ imp' = [imp EXCEPT !.queue = queue_get(imp.queue).rest,
                                     !.jobs[job_id].status = "running",
                                     !.jobs[job_id].error = NoError]
               /\ SetFS(pr.fs)
               /\ iw' = [pc |-> IF pr.raised THEN "fail" ELSE "lock",
                         job |-> job_id, final_path |-> final_path,
                         backup_path |-> pr.backup_path,
                         final_promoted |-> ~pr.raised,
                         before |-> files[final_path],
                         payload |-> staged[job_id],
                         error |-> IF pr.raised THEN "promote failed" ELSE NoError,
                         summary |-> NoSummary]
    /\ UNCHANGED <<bvars, live, icalls, fchanges, ilast, store_schema, scan_state, scn,
                   locks, sw, api, reply>>

\* with self._db_write_lock: of ImportService._run_one
ImportLock ==
    /\ iw.pc = "lock"
    /\ locks[create_server.import] = Free
    /\ locks' = [locks EXCEPT ![create_server.import] = "import_worker"]
    /\ iw' = [iw EXCEPT !.pc = "ingest"]
    /\ UNCHANGED <<bvars, ivars, store_schema, scan_state, dirs, imp, scn, staged, bak,
                   sw, api, reply>>

\* ingest_pdfs(conn, [final_path]) inside the lock, then the lock is released
ImportIngest(fault) ==
    /\ iw.pc = "ingest"
    /\ LET r == ingest_pdfs(live, <<[path |-> iw.final_path,
                                     content |-> files[iw.final_path]]>>, fault)
       IN /\ live' = r.committed
          /\ iw' = [iw EXCEPT
                      !.pc = IF r.ok THEN "succeed" ELSE "fail",
                      !.error = IF r.ok THEN NoError ELSE "ingest failed",
                      !.summary = IF r.ok
                                  THEN [docs_ingested |-> r.merged,
                                        docs_replaced |-> r.replaced,
                                        relative_path |-> iw.final_path]
                                  ELSE NoSummary]
    /\ locks' = [locks EXCEPT ![create_server.import] = Free]
    /\ UNCHANGED <<bvars, files, icalls, fchanges, ilast, store_schema, scan_state, dirs,
                   imp, scn, staged, bak, sw, api, reply>>

\* job.status = "success" and the prune, under self._lock
ImportSucceed ==
    /\ iw.pc = "succeed"
    /\ imp' = prune_jobs_locked([imp EXCEPT !.jobs[iw.job].status = "success",
                                            !.jobs[iw.job].summary = iw.summary])
    /\ iw' = [iw EXCEPT !.pc = "finish"]
    /\ UNCHANGED <<bvars, ivars, store_schema, scan_state, dirs, scn, staged, bak, locks,
                   sw, api, reply>>

\* self._on_success() with its exception propagating to the except branch
ImportCallbackUnguarded(raises) ==
    /\ iw.pc = "finish"
    /\ iw' = IF raises
             THEN [iw EXCEPT !.pc = "fail", !.error = "on_success failed"]
             ELSE [iw EXCEPT !.pc = "unlink"]
    /\ UNCHANGED <<bvars, ivars, store_schema, scan_state, dirs, imp, scn, staged, bak,
                   locks, sw, api, reply>>

\* try: self._on_success() / except Exception: the failure is logged
ImportCallback(raises) ==
    /\ iw.pc = "finish"
    /\ iw' = [iw EXCEPT !.pc = "unlink",
                        !.error = IF raises THEN "Import success callback failed"
                                  ELSE NoError]
    /\ UNCHANGED <<bvars, ivars, store_schema, scan_state, dirs, imp, scn, staged, bak,
                   locks, sw, api, reply>>

\* the removal of the backup file, the last step of the try block
ImportFinish ==
    /\ iw.pc = "unlink"
    /\ bak' = IF iw.backup_path THEN NoFile ELSE bak
    /\ iw' = IdleImportWorker
    /\ UNCHANGED <<bvars, ivars, store_schema, scan_state, dirs, imp, scn, staged, locks,
                   sw, api, reply>>

\* except Exception: job.status = "failed" and the prune, under self._lock
ImportFail ==
    /\ iw.pc = "fail"
    /\ imp' = prune_jobs_locked([imp EXCEPT !.jobs[iw.job].status = "failed",
                                            !.jobs[iw.job].error = iw.error])
    /\ iw' = [iw EXCEPT !.pc = "rollback"]
    /\ UNCHANGED <<bvars, ivars, store_schema, scan_state, dirs, scn, staged, bak, locks,
                   sw, api, reply>>

\* an exception that leaves _run_one ends the thread of _run_worker
StoppedImportWorker == [IdleImportWorker EXCEPT !.pc = "stopped"]

\* the except branch of ImportService._run_one with its exception re-raised
ImportRollbackRaises ==
    /\ iw.pc = "rollback"
    /\ iw' = StoppedImportWorker
    /\ UNCHANGED <<bvars, ivars, store_schema, scan_state, dirs, imp, scn, staged, bak,
                   locks, sw, api, reply>>

\* the file rollback of the except branch
ImportRollback ==
    /\ iw.pc = "rollback"
    /\ LET unstaged == [FS EXCEPT !.staged[iw.job] = NoFile]
           unlinked == IF iw.final_promoted
                       THEN [unstaged EXCEPT !.files[iw.final_path] = NoFile]
                       ELSE unstaged
       IN SetFS(restore_backup_file(unlinked, iw.backup_path, iw.final_path))
    /\ iw' = IdleImportWorker
    /\ UNCHANGED <<bvars, live, icalls, fchanges, ilast, store_schema, scan_state, imp,
                   scn, locks, sw, api, reply>>

\* ScanService._run_worker takes a job; _run_one marks it running and
\* _scan_and_ingest lists the PDF files below the scanned directory
ScanStart ==
    /\ sw.pc \in {"idle", "get"}
    /\ sw.pc = "idle" => ~scn.stop_event
    /\ scn.queue # <<>> /\ queue_get(scn.queue).item # Sentinel
    /\ LET job_id == queue_get(scn.queue).item
           path == scn.jobs[job_id].path
       IN IF job_id \notin DOMAIN scn.jobs
          THEN /\ scn' = [scn EXCEPT !.queue = queue_get(scn.queue).rest]
               /\ sw' = [sw EXCEPT !.pc = "idle"]
          ELSE /\ scn' = [scn EXCEPT !.queue = queue_get(scn.queue).rest,
                                     !.jobs[job_id].status = "running",
                                     !.jobs[job_id].error = NoError]
               /\ sw' = [pc |-> "lock", job |-> job_id, path |-> path,
                         entries |-> [p \in walk(files, path)
                                                \cup walk_staged(imp, staged, path) |->
                                        stat(FileAt(files, staged, p))],
                         changed_paths |-> <<>>,
                         error |-> NoError, summary |-> NoSummary]
    /\ UNCHANGED <<bvars, ivars, store_schema, scan_state, dirs, imp, staged, bak, locks,
                   iw, api, reply>>

\* with self._db_write_lock: of ScanService._scan_and_ingest
ScanLock ==
    /\ sw.pc = "lock"
    /\ locks[create_server.scan] = Free
    /\ locks' = [locks EXCEPT ![create_server.scan] = "scan_worker"]
    /\ sw' = [sw EXCEPT !.pc = "section"]
    /\ UNCHANGED <<bvars, ivars, store_schema, scan_state, dirs, imp, scn, staged, bak,
                   iw, api, reply>>

\* a file whose size alone is compared with its scan_state row
changed_by_size(old, entry) == old = NoRow \/ old.size # entry.size

\* old is None or old[0] != size or abs(old[1] - mtime) > 1e-9
changed(old, entry) ==
    old = NoRow \/ old.size # entry.size \/ old.mtime # entry.mtime

\* the block of _scan_and_ingest inside the lock: the diff against scan_state,
\* ingest_pdfs of the changed files, the upsert of scan_state and the commit
ScanSection(fault) ==
    /\ sw.pc = "section"
    /\ LET scanned == DOMAIN sw.entries
           changed_paths == SortedPaths({p \in scanned :
                                           changed(RowAt(scan_state, p), sw.entries[p])})
           inputs == [i \in 1..Len(changed_paths) |->
                        [path |-> changed_paths[i],
                         content |-> FileAt(files, staged, changed_paths[i])]]
           r == ingest_pdfs(live, inputs, fault)
       IN /\ fault <= Len(changed_paths)
          /\ IF ~store_schema.scan_state
             THEN /\ UNCHANGED <<live, scan_state>>
                  /\ sw' = [sw EXCEPT !.pc = "fail",
                                      !.error = "no such table: scan_state"]
             ELSE IF ~r.ok
             THEN /\ live' = r.committed
                  /\ UNCHANGED scan_state
                  /\ sw' = [sw EXCEPT !.pc = "fail", !.error = "ingest failed",
                                      !.changed_paths = changed_paths]
             ELSE /\ live' = r.committed
                  /\ scan_state' = [p \in DOMAIN scan_state \cup scanned |->
                                      IF p \in scanned THEN sw.entries[p]
                                      ELSE scan_state[p]]
                  /\ sw' = [sw EXCEPT !.pc = "succeed",
                                      !.changed_paths = changed_paths,
                                      !.summary = [path |-> sw.path,
                                                   scanned_files |-> Cardinality(scanned),
                                                   changed_files |-> Len(changed_paths),
                                                   docs_ingested |-> r.merged,
                                                   docs_replaced |-> r.replaced]]
    /\ locks' = [locks EXCEPT ![create_server.scan] = Free]
    /\ UNCHANGED <<bvars, files, icalls, fchanges, ilast, store_schema, dirs, imp, scn,
                   staged, bak, iw, api, reply>>

\* job.status = "success" and the prune, under self._lock
ScanSucceed ==
    /\ sw.pc = "succeed"
    /\ scn' = prune_jobs_locked([scn EXCEPT !.jobs[sw.job].status = "success",
                                            !.jobs[sw.job].summary = sw.summary])
    /\ sw' = [sw EXCEPT !.pc = "callback"]
    /\ UNCHANGED <<bvars, ivars, store_schema, scan_state, dirs, imp, staged, bak, locks,
                   iw, api, reply>>

\* self._on_success() inside the try block: when the callback raises, the except
\* branch of _run_one runs
ScanCallback(raises) ==
    /\ sw.pc = "callback"
    /\ scn' = IF raises
              THEN prune_jobs_locked([scn EXCEPT !.jobs[sw.job].status = "failed",
                                                 !.jobs[sw.job].error = "on_success failed"])
              ELSE scn
    /\ sw' = IdleScanWorker
    /\ UNCHANGED <<bvars, ivars, store_schema, scan_state, dirs, imp, staged, bak, locks,
                   iw, api, reply>>

\* an except branch that logs the failure and records nothing in the job
ScanFailUnrecorded ==
    /\ sw.pc = "fail"
    /\ sw' = IdleScanWorker
    /\ UNCHANGED <<bvars, ivars, store_schema, scan_state, dirs, imp, scn, staged, bak,
                   locks, iw, api, reply>>

\* except Exception: job.status = "failed" and the prune, under self._lock
ScanFail ==
    /\ sw.pc = "fail"
    /\ scn' = prune_jobs_locked([scn EXCEPT !.jobs[sw.job].status = "failed",
                                            !.jobs[sw.job].error = sw.error])
    /\ sw' = IdleScanWorker
    /\ UNCHANGED <<bvars, ivars, store_schema, scan_state, dirs, imp, staged, bak, locks,
                   iw, api, reply>>

\* the jobs _assert_path_not_busy and delete_document look at
ActiveJobs == {j \in DOMAIN imp.jobs : imp.jobs[j].status \in Active}

PathNeverBusy(relative_path) == FALSE

\* _assert_path_not_busy(relative_path) raises
PathBusy(relative_path) ==
    \E j \in ActiveJobs : imp.jobs[j].relative_path = relative_path

\* a PDF file that a scan has recorded is removed from the directory by hand,
\* at a time when no upload to its path is under way
RemoveFile(p) ==
    /\ files[p] # NoFile
    /\ store_schema.scan_state
    /\ scan_state[p] # NoRow
    /\ ~PathBusy(p)
    /\ iw.pc = "idle" \/ iw.final_path # p
    /\ files' = [files EXCEPT ![p] = NoFile]
    /\ UNCHANGED <<bvars, live, icalls, fchanges, ilast, svars>>

\* the busy check at the head of delete_document: a bare file name is busy
\* when a job for a file of that name is queued or running
DeleteBusy(identifier) ==
    \/ PathBusy(identifier)
    \/ identifier.dir = "" /\ \E j \in ActiveJobs :
                                 PdfName(imp.jobs[j].relative_path) = identifier.name

\* _candidate_pdf_paths(pdf_name, raw_pdf_path), and the first of them that is a file
candidate_pdf_paths(relative_path, raw_pdf_path) ==
    IF raw_pdf_path = NullPath \/ raw_pdf_path = relative_path
    THEN <<relative_path>> ELSE <<relative_path, raw_pdf_path>>

resolve_existing_pdf_file(relative_path, raw_pdf_path) ==
    LET c == candidate_pdf_paths(relative_path, raw_pdf_path)
        found == {i \in 1..Len(c) : c[i] \in Paths /\ files[c[i]] # NoFile}
    IN IF found = {} THEN NullPath ELSE c[MinOf(found)]

\* _resolve_document_row_by_relative_path: the rows it selects
RowsByRelativePath(relative_path) ==
    {d \in live.documents : d.relative_path = relative_path}

\* _resolve_delete_row: the rows it selects
DeleteRows(identifier) ==
    IF identifier.dir # "" THEN RowsByRelativePath(identifier)
    ELSE {d \in live.documents : d.pdf_name = identifier.name}

ApiReply(op, code) ==
    IF code \in {"deleted", "not deleted", "updated", "not updated"} THEN NoReply
    ELSE [op |-> op, code |-> code, job |-> 0, queue_full |-> FALSE]

\* the SELECT COUNT(1) queries of delete_document
deleted_counts(db, doc_id) ==
    LET pids == {p.id : p \in {q \in db.parts : q.document_id = doc_id}}
    IN [pages |-> Cardinality({pg \in db.pages : pg.document_id = doc_id}),
        parts |-> Cardinality(pids),
        xrefs |-> Cardinality({x \in db.xrefs : x.part_id \in pids}),
        aliases |-> Cardinality({a \in db.aliases : a.part_id \in pids})]

\* delete_document(pdf_name): the busy check under self._lock
DeleteCheck(identifier) ==
    /\ api.pc = "idle"
    /\ api.calls < MaxApiCalls
    /\ IF DeleteBusy(identifier)
       THEN /\ api' = [api EXCEPT !.calls = api.calls + 1]
            /\ reply' = ApiReply("delete_document", "VALIDATION_ERROR")
       ELSE /\ api' = [api EXCEPT !.calls = api.calls + 1, !.pc = "delete_lock",
                                  !.source = identifier, !.target = NullPath,
                                  !.raw_pdf_path = NullPath]
            /\ reply' = NoReply
    /\ UNCHANGED <<bvars, ivars, store_schema, scan_state, dirs, imp, scn, staged, bak,
                   locks, iw, sw>>

\* _relocate_document(source_rel, target_rel): the two busy checks
RelocateCheck(source_rel, target_rel) ==
    /\ api.pc = "idle"
    /\ api.calls < MaxApiCalls
    /\ IF PathBusy(source_rel) \/ PathBusy(target_rel)
       THEN /\ api' = [api EXCEPT !.calls = api.calls + 1]
            /\ reply' = ApiReply("relocate_document", "VALIDATION_ERROR")
       ELSE /\ api' = [api EXCEPT !.calls = api.calls + 1, !.pc = "relocate_lock",
                                  !.source = source_rel, !.target = target_rel,
                                  !.raw_pdf_path = NullPath]
            /\ reply' = NoReply
    /\ UNCHANGED <<bvars, ivars, store_schema, scan_state, dirs, imp, scn, staged, bak,
                   locks, iw, sw>>

\* with self._db_write_lock: of delete_document and of _relocate_document
ApiLock ==
    /\ api.pc \in {"delete_lock", "relocate_lock"}
    /\ locks[create_server.import] = Free
    /\ locks' = [locks EXCEPT ![create_server.import] = "api"]
    /\ api' = [api EXCEPT !.pc = IF api.pc = "delete_lock" THEN "delete_section"
                                 ELSE "relocate_section"]
    /\ UNCHANGED <<bvars, ivars, store_schema, scan_state, dirs, imp, scn, staged, bak,
                   iw, sw, reply>>

\* the block of delete_document inside the lock: resolve the row, delete the
\* document (ON DELETE CASCADE) and its scan_state row, commit
DeleteSection ==
    /\ api.pc = "delete_section"
    /\ LET rows == DeleteRows(api.source)
           row == CHOOSE d \in rows : TRUE
           resolved == IF row.relative_path # NullPath THEN row.relative_path
                       ELSE api.source
       IN IF ~store_schema.relative_path
          THEN /\ reply' = ApiReply("delete_document", "OperationalError")
               /\ api' = [IdleApi EXCEPT !.calls = api.calls]
               /\ UNCHANGED <<live, scan_state>>
          ELSE IF rows = {}
          THEN /\ reply' = ApiReply("delete_document", "not deleted")
               /\ api' = [IdleApi EXCEPT !.calls = api.calls, !.result = "not deleted"]
               /\ UNCHANGED <<live, scan_state>>
          ELSE IF Cardinality(rows) > 1
          THEN /\ reply' = ApiReply("delete_document", "CONFLICT")
               /\ api' = [IdleApi EXCEPT !.calls = api.calls]
               /\ UNCHANGED <<live, scan_state>>
          ELSE /\ live' = DeleteDocument(live, row.id)
               /\ scan_state' = [p \in Paths |-> IF p = resolved THEN NoRow
                                                 ELSE scan_state[p]]
               /\ api' = [api EXCEPT !.pc = "delete_file", !.source = resolved,
                                     !.raw_pdf_path = row.pdf_path,
                                     !.deleted_counts = deleted_counts(live, row.id)]
               /\ reply' = reply
    /\ locks' = [locks EXCEPT ![create_server.import] = Free]
    /\ UNCHANGED <<bvars, files, icalls, fchanges, ilast, store_schema, dirs, imp, scn,
                   staged, bak, iw, sw>>

\* _delete_pdf_file(resolved_relative_path, raw_pdf_path) after the lock is released
DeleteFile ==
    /\ api.pc = "delete_file"
    /\ LET path == resolve_existing_pdf_file(api.source, api.raw_pdf_path)
       IN files' = IF path = NullPath THEN files ELSE [files EXCEPT ![path] = NoFile]
    /\ api' = [IdleApi EXCEPT !.calls = api.calls, !.result = "deleted"]
    /\ reply' = ApiReply("delete_document", "deleted")
    /\ UNCHANGED <<bvars, live, icalls, fchanges, ilast, store_schema, scan_state, dirs,
                   imp, scn, staged, bak, locks, iw, sw>>

\* DELETE FROM scan_state WHERE relative_path = target and UPDATE scan_state SET
\* relative_path = target WHERE relative_path = source
copy_scan_state(table, source_rel, target_rel) ==
    [p \in Paths |-> IF p = target_rel THEN table[source_rel] ELSE table[p]]

move_scan_state(table, source_rel, target_rel) ==
    [p \in Paths |-> IF p = target_rel THEN table[source_rel]
                     ELSE IF p = source_rel THEN NoRow
                     ELSE table[p]]

\* the block of _relocate_document inside the lock: resolve source and target,
\* move the file, update the document row and the scan_state row, commit;
\* fault makes the UPDATE raise after the file was moved: the except branch
\* (RelocateUndo) runs next, the lock still held
RelocateSection(fault) ==
    /\ api.pc = "relocate_section"
    /\ LET rows == RowsByRelativePath(api.source)
           row == CHOOSE d \in rows : TRUE
           source_file == resolve_existing_pdf_file(api.source, row.pdf_path)
           outcome ==
               IF ~store_schema.relative_path THEN "OperationalError"
               ELSE IF Cardinality(rows) > 1 THEN "CONFLICT"
               ELSE IF rows = {} THEN "not updated"
               ELSE IF api.source = api.target THEN "updated"
               ELSE IF RowsByRelativePath(api.target) # {} THEN "CONFLICT"
               ELSE IF source_file = NullPath THEN "not updated"
               ELSE IF files[api.target] # NoFile THEN "CONFLICT"
               ELSE IF fault THEN "update failed"
               ELSE "moved"
       IN /\ reply' = IF outcome = "update failed" THEN reply
                       ELSE ApiReply("relocate_document",
                                     IF outcome = "moved" THEN "updated" ELSE outcome)
          /\ IF outcome = "moved"
             THEN /\ files' = [files EXCEPT ![api.target] = files[source_file],
                                            ![source_file] = NoFile]
                  /\ dirs' = dirs \cup {api.target.dir}
                  /\ live' = [live EXCEPT !.documents =
                                (@ \ {row}) \cup {[row EXCEPT !.pdf_name = PdfName(api.target),
                                                              !.relative_path = api.target,
                                                              !.pdf_path = api.target]}]
                  /\ scan_state' = move_scan_state(scan_state, api.source, api.target)
             ELSE IF outcome = "update failed"
             THEN /\ files' = [files EXCEPT ![api.target] = files[source_file],
                                            ![source_file] = NoFile]
                  /\ dirs' = dirs \cup {api.target.dir}
                  /\ UNCHANGED <<live, scan_state>>
             ELSE UNCHANGED <<files, dirs, live, scan_state>>
          /\ api' = IF outcome = "update failed"
                    THEN [api EXCEPT !.pc = "relocate_undo", !.source_file = source_file,
                                     !.before = files[source_file]]
                    ELSE [IdleApi EXCEPT !.calls = api.calls,
                                         !.result = IF outcome \in {"moved", "updated"}
                                                    THEN "updated"
                                                    ELSE IF outcome = "not updated"
                                                    THEN "not updated" ELSE ""]
          /\ locks' = IF outcome = "update failed" THEN locks
                       ELSE [locks EXCEPT ![create_server.import] = Free]
    /\ UNCHANGED <<bvars, icalls, fchanges, ilast, store_schema, imp, scn, staged, bak,
                   iw, sw>>

\* except Exception: conn.rollback(), target_file.replace(source_file), raise:
\* whatever lies at the target path is moved to the source path (a target that
\* is gone makes the move raise instead) and the error leaves the lock
RelocateUndo ==
    /\ api.pc = "relocate_undo"
    /\ files' = IF files[api.target] # NoFile
                THEN [files EXCEPT ![api.source_file] = files[api.target],
                                   ![api.target] = NoFile]
                ELSE files
    /\ reply' = ApiReply("relocate_document", "OperationalError")
    /\ api' = [IdleApi EXCEPT !.calls = api.calls]
    /\ locks' = [locks EXCEPT ![create_server.import] = Free]
    /\ UNCHANGED <<bvars, live, icalls, fchanges, ilast, store_schema, scan_state, dirs,
                   imp, scn, staged, bak, iw, sw>>

\* the uploads the callers make, and the renames and moves they ask for
UploadPaths == {[dir |-> "", name |-> "a.pdf"], [dir |-> "engine", name |-> "a.pdf"]}
UploadPayloads == {2}
Relocations ==
    {<<[dir |-> "", name |-> "a.pdf"], [dir |-> "", name |-> "b.pdf"]>>,
     <<[dir |-> "", name |-> "a.pdf"], [dir |-> "engine", name |-> "a.pdf"]>>}

\* the server starts on an empty PDF directory and store, or on a directory
\* whose file a.pdf an earlier run has ingested and scanned
PriorPath == [dir |-> "", name |-> "a.pdf"]
PriorInputs == <<[path |-> PriorPath, content |-> 1]>>

\* the rows of a store file that carries documents.relative_path as the release
\* that added the column left them: relative_path holds the path of the file
DeployedRows(db) ==
    [db EXCEPT !.documents = {[d EXCEPT !.relative_path = d.pdf_path] : d \in @}]

\* the store an earlier run has left behind
PriorStore(schema) ==
    LET db == ingest_pdfs(EmptyStore, PriorInputs, 0).committed
    IN IF schema.relative_path THEN DeployedRows(db) ELSE db

Init ==
    /\ InitBuild
    /\ icalls = 0 /\ fchanges = 0 /\ ilast = NoCall
    /\ store_schema \in {CreatedSchema, DeployedSchema}
    /\ InitServices(1, 2)
    /\ \E prior \in BOOLEAN :
          /\ files = [p \in Paths |-> IF prior /\ p = PriorPath THEN 1 ELSE NoFile]
          /\ live = IF prior THEN PriorStore(store_schema) ELSE EmptyStore
          /\ scan_state = [p \in Paths |->
                              IF prior /\ p = PriorPath /\ store_schema.scan_state
                              THEN stat(1) ELSE NoRow]

Next ==
    \/ \E path \in UploadPaths, payload \in UploadPayloads :
          imp.submitted < MaxImportJobs /\ submit_upload(path, payload)
    \/ \E path \in ScanDirs : scn.submitted < MaxScanJobs /\ submit_scan(path)
    \/ ImportStart
    \/ ImportLock
    \/ \E fault \in 0..1 : ImportIngest(fault)
    \/ ImportSucceed
    \/ \E raises \in BOOLEAN : ImportCallback(raises)
    \/ ImportFinish
    \/ ImportFail
    \/ ImportRollback
    \/ ScanStart
    \/ ScanLock
    \/ \E fault \in 0..2 : ScanSection(fault)
    \/ ScanSucceed
    \/ \E raises \in BOOLEAN : ScanCallback(raises)
    \/ ScanFail
    \/ \E identifier \in UploadPaths : DeleteCheck(identifier)
    \/ \E r \in Relocations : RelocateCheck(r[1], r[2])
    \/ ApiLock
    \/ DeleteSection
    \/ DeleteFile
    \/ \E fault \in BOOLEAN : RelocateSection(fault)
    \/ RelocateUndo
    \/ \E p \in Paths : RemoveFile(p)

Spec == Init /\ [][Next]_vars

(***************************************************************************)
(* SpecPrune: one ImportService with queue_size 8 that retains three jobs  *)
(* and takes up to MaxPruneJobs uploads of one file                        *)
(***************************************************************************)
InitPrune ==
    /\ InitBuild /\ InitStore /\ files = [p \in Paths |-> NoFile]
    /\ store_schema = CreatedSchema /\ InitServices(8, 3)
    /\ scan_state = [p \in Paths |-> NoRow]

NextPrune ==
    \/ \E payload \in UploadPayloads :
          imp.submitted < MaxPruneJobs /\ submit_upload(PriorPath, payload)
    \/ ImportStart
    \/ ImportLock
    \/ \E fault \in 0..1 : ImportIngest(fault)
    \/ ImportSucceed
    \/ \E raises \in BOOLEAN : ImportCallback(raises)
    \/ ImportFinish
    \/ ImportFail
    \/ ImportRollback

SpecPrune == InitPrune /\ [][NextPrune]_vars

(***************************************************************************)
(* SpecLive: the two workers at work on up to MaxLiveJobs uploads and      *)
(* MaxLiveJobs scans. A worker thread that has a step to take is scheduled *)
(* eventually                                                              *)
(***************************************************************************)
\* the steps of the thread ipc-import-worker
ImportWorker ==
    \/ ImportStart
    \/ ImportLock
    \/ \E fault \in 0..1 : ImportIngest(fault)
    \/ ImportSucceed
    \/ \E raises \in BOOLEAN : ImportCallback(raises)
    \/ ImportFinish
    \/ ImportFail
    \/ ImportRollback

\* the steps of the thread ipc-scan-worker
ScanWorker ==
    \/ ScanStart
    \/ ScanLock
    \/ \E fault \in 0..2 : ScanSection(fault)
    \/ ScanSucceed
    \/ \E raises \in BOOLEAN : ScanCallback(raises)
    \/ ScanFail

InitLive ==
    /\ InitBuild
    /\ icalls = 0 /\ fchanges = 0 /\ ilast = NoCall
    /\ store_schema \in {CreatedSchema, DeployedSchema}
    /\ InitServices(1, 2)
    /\ files = [p \in Paths |-> NoFile]
    /\ live = EmptyStore
    /\ scan_state = [p \in Paths |-> NoRow]

NextLive ==
    \/ \E payload \in UploadPayloads :
          imp.submitted < MaxLiveJobs /\ submit_upload(PriorPath, payload)
    \/ scn.submitted < MaxLiveJobs /\ submit_scan("")
    \/ ImportWorker
    \/ ScanWorker

\* the call of ingest_pdfs in _run_one returns or raises: the thread leaves it
ImportIngestEnds ==
    /\ iw.pc = "ingest"
    /\ \E pc \in {"succeed", "fail"} : iw' = [iw EXCEPT !.pc = pc]
    /\ UNCHANGED <<bvars, ivars, store_schema, scan_state, dirs, imp, scn, staged, bak,
                   locks, sw, api, reply>>

\* the locked block of _scan_and_ingest returns or raises: the thread leaves it
ScanSectionEnds ==
    /\ sw.pc = "section"
    /\ \E pc \in {"succeed", "fail"} : sw' = [sw EXCEPT !.pc = pc]
    /\ UNCHANGED <<bvars, ivars, store_schema, scan_state, dirs, imp, scn, staged, bak,
                   locks, iw, api, reply>>

\* a worker thread that has a step to take is scheduled and takes it: it stays
\* for ever neither before a step of its loop nor inside ingest_pdfs
ImportWorkerRuns ==
    WF_vars(ImportStart \/ ImportLock \/ ImportIngestEnds \/ ImportSucceed
              \/ (\E raises \in BOOLEAN : ImportCallback(raises))
                 \/ ImportFinish \/ ImportFail \/ ImportRollback)

ScanWorkerRuns ==
    WF_vars(ScanStart \/ ScanLock \/ ScanSectionEnds \/ ScanSucceed
              \/ (\E raises \in BOOLEAN : ScanCallback(raises)) \/ ScanFail)

SpecLive == InitLive /\ [][NextLive]_vars /\ ImportWorkerRuns /\ ScanWorkerRuns

(***************************************************************************)
(* SpecFifo: the two services with queues that hold all of the MaxLiveJobs *)
(* jobs each of them is given, and their workers                           *)
(***************************************************************************)
InitFifo ==
    /\ InitBuild /\ InitStore /\ ilast = NoCall
    /\ store_schema \in {CreatedSchema, DeployedSchema}
    /\ InitServices(8, 3)
    /\ files = [p \in Paths |-> NoFile]
    /\ scan_state = [p \in Paths |-> NoRow]

SpecFifo == InitFifo /\ [][NextLive]_vars

(***************************************************************************)
(* SpecSchema: ensure_schema run, up to MaxEnsureCalls times, on a store   *)
(* file that is new or holds up to MaxSchemaDocs documents                 *)
(***************************************************************************)
SchemaFiles == {EmptyFile, CreatedSchema, LegacySchema, DeployedSchema}

\* the documents tables a file of the schema can hold: ids from 1, file names
\* unique where the table declares pdf_name UNIQUE, relative paths unique
\* where the index exists, NULL where the column does not
DocumentTables(schema) ==
    LET names == {p.name : p \in Paths}
        rows(id) == {[id |-> id, pdf_name |-> p.name, pdf_path |-> p,
                      relative_path |-> rp] :
                        p \in Paths,
                        rp \in IF schema.relative_path THEN Paths ELSE {NullPath}}
        tables == UNION {{t \in SUBSET UNION {rows(id) : id \in 1..n} :
                            /\ Cardinality(t) = n
                            /\ {d.id : d \in t} = 1..n} : n \in 0..MaxSchemaDocs}
    IN {t \in tables :
          /\ ~schema.tables => t = {}
          /\ schema = CreatedSchema =>
                \A d1, d2 \in t : d1.pdf_name = d2.pdf_name => d1 = d2
          /\ schema.relative_path_unique =>
                \A d1, d2 \in t : d1.relative_path = d2.relative_path => d1 = d2}

EnsureSchema ==
    /\ icalls < MaxEnsureCalls
    /\ LET r == ensure_schema(store_schema, live)
       IN /\ store_schema' = r.schema
          /\ live' = r.db
          /\ ilast' = [op |-> "ensure_schema", error |-> r.error, before |-> live]
    /\ icalls' = icalls + 1
    /\ UNCHANGED <<bvars, files, fchanges, scan_state, dirs, imp, scn, staged, bak,
                   locks, iw, sw, api, reply>>

InitSchema ==
    /\ InitBuild /\ icalls = 0 /\ fchanges = 0 /\ ilast = NoCall
    /\ store_schema \in SchemaFiles
    /\ \E t \in DocumentTables(store_schema) : live = [EmptyStore EXCEPT !.documents = t]
    /\ InitServices(1, 2)
    /\ files = [p \in Paths |-> NoFile]
    /\ scan_state = [p \in Paths |-> NoRow]

NextSchema == EnsureSchema

SpecSchema == InitSchema /\ [][NextSchema]_vars

(***************************************************************************)
(* SpecRender: up to MaxRenderCalls calls of render_page by the request    *)
(* threads. A thread blocked in acquire(timeout=...) gets a permit or its   *)
(* timeout ends the wait                                                   *)
(***************************************************************************)
InitRender == InitPrune

NextRender ==
    \/ \E t \in Renderers, cached \in BOOLEAN : render_page(t, cached)
    \/ \E t \in Renderers : RenderAcquire(t)
    \/ \E t \in Renderers : RenderTimeout(t)
    \/ \E t \in Renderers, outcome \in RenderOutcomes : RenderEnds(t, outcome)

SpecRender ==
    /\ InitRender /\ [][NextRender]_vars
    /\ \A t \in Renderers : WF_vars(RenderAcquire(t) \/ RenderTimeout(t))

(***************************************************************************)
(* SpecBatch: one POST /api/docs/batch-delete with up to MaxBatch paths,  *)
(* for every way delete_document can answer each of them                   *)
(***************************************************************************)
InitBatch ==
    /\ bstate = [db |-> EmptyStore, stacks |-> <<>>] /\ bdoc = 0 /\ blast = NoRec
    /\ canon = NoCanon /\ render = IdleRender /\ cache = EmptyCache
    /\ enablement = Unresolved
    /\ \E n \in 0..MaxBatch :
          \E paths \in [1..n -> RawPaths], outcomes \in [1..n -> DeleteOutcomes] :
             bdel = [IdleBatch EXCEPT !.paths = paths, !.outcomes = outcomes]
    /\ InitStore /\ files = [p \in Paths |-> NoFile]
    /\ store_schema = CreatedSchema /\ InitServices(1, 2)
    /\ scan_state = [p \in Paths |-> NoRow]

NextBatch == handle_docs_batch_delete

SpecBatch == InitBatch /\ [][NextBatch]_vars

(***************************************************************************)
(* SpecCache: up to MaxCacheOps calls of set, get and delete on a          *)
(* CacheService while up to MaxClock seconds pass                          *)
(***************************************************************************)
InitCache == InitPrune

NextCache ==
    \/ \E key \in CacheKeys : CacheGet(key)
    \/ \E key \in CacheKeys, value \in CacheValues, ttl \in TTLs : CacheSet(key, value, ttl)
    \/ \E key \in CacheKeys : CacheDelete(key)
    \/ Tick

SpecCache == InitCache /\ [][NextCache]_vars

(***************************************************************************)
(* SpecDirs: uploads and scans are submitted with directory arguments of   *)
(* zero, one and two components, under a PDF directory that has the        *)
(* folders engine and engine/sub; the scan worker runs its jobs            *)
(***************************************************************************)
DirArgs == {"", "engine", "/engine/", "..", "engine/./x", "engine/sub", "engine\\sub/"}

InitDirs ==
    /\ InitBuild /\ InitStore /\ files = [p \in Paths |-> NoFile]
    /\ store_schema \in {CreatedSchema, DeployedSchema}
    /\ dirs = {"", "engine", "engine/sub"}
    /\ imp = ImportService(8, 3) /\ scn = ScanService(3)
    /\ staged = <<>> /\ bak = NoFile /\ locks = [l \in LockNames |-> Free]
    /\ iw = IdleImportWorker /\ sw = IdleScanWorker /\ api = IdleApi /\ reply = NoReply
    /\ scan_state = [p \in Paths |-> NoRow]

NextDirs ==
    \/ \E target_dir \in DirArgs :
          /\ imp.submitted < MaxLiveJobs
          /\ submit_upload_request([filename |-> "a.pdf", target_dir |-> target_dir,
                                    content_type |-> "application/pdf",
                                    payload |-> "%PDF-1"])
    \/ \E path \in DirArgs : scn.submitted < MaxLiveJobs /\ submit_scan_request(path)
    \/ ScanWorker

SpecDirs == InitDirs /\ [][NextDirs]_vars

(***************************************************************************)
(* SpecEnablement: create_server resolves whether import and scan are      *)
(* enabled, for every import_mode and every outcome of the three probes    *)
(***************************************************************************)
InitEnablement ==
    /\ bstate = [db |-> EmptyStore, stacks |-> <<>>] /\ bdoc = 0 /\ blast = NoRec
    /\ canon = NoCanon /\ render = IdleRender /\ bdel = IdleBatch /\ cache = EmptyCache
    /\ \E mode \in ImportModes, pdf_dir \in BOOLEAN,
          writable \in [db : BOOLEAN, pdf : BOOLEAN, upload : BOOLEAN] :
             enablement = [Unresolved EXCEPT
                             !.config = [import_mode |-> mode, pdf_dir |-> pdf_dir],
                             !.writable = writable]
    /\ InitStore /\ files = [p \in Paths |-> NoFile]
    /\ store_schema = CreatedSchema /\ InitServices(1, 2)
    /\ scan_state = [p \in Paths |-> NoRow]

NextEnablement == ResolveEnablement

SpecEnablement == InitEnablement /\ [][NextEnablement]_vars

(***************************************************************************)
(* SpecStop: the two services with their workers at work on up to          *)
(* MaxLiveJobs uploads and scans, each stopped once at any moment          *)
(***************************************************************************)
\* stop() of a service: set the event, put "__stop__" unless the queue is full.
\* A worker that waits in queue.get has or has not yet tested the event
stopped_service(svc) ==
    [svc EXCEPT !.stop_event = TRUE,
                !.queue = IF Len(svc.queue) < svc.queue_size
                          THEN Append(svc.queue, Sentinel) ELSE svc.queue]

ImportServiceStop ==
    /\ ~imp.stop_event
    /\ imp' = stopped_service(imp)
    /\ \E pc \in {"idle", "get"} :
          iw' = IF iw.pc = "idle" THEN [iw EXCEPT !.pc = pc] ELSE iw
    /\ UNCHANGED <<bvars, ivars, store_schema, scan_state, dirs, scn, staged, bak, locks,
                   sw, api, reply>>

ScanServiceStop ==
    /\ ~scn.stop_event
    /\ scn' = stopped_service(scn)
    /\ \E pc \in {"idle", "get"} :
          sw' = IF sw.pc = "idle" THEN [sw EXCEPT !.pc = pc] ELSE sw
    /\ UNCHANGED <<bvars, ivars, store_schema, scan_state, dirs, imp, staged, bak, locks,
                   iw, api, reply>>

\* _run_worker leaves its loop on "__stop__" only
ImportWorkerExitOnSentinel ==
    /\ iw.pc \in {"idle", "get"}
    /\ imp.queue # <<>> /\ Head(imp.queue) = Sentinel
    /\ imp' = [imp EXCEPT !.queue = Tail(imp.queue)]
    /\ iw' = [iw EXCEPT !.pc = "stopped"]
    /\ UNCHANGED <<bvars, ivars, store_schema, scan_state, dirs, scn, staged, bak, locks,
                   sw, api, reply>>

\* _run_worker leaves its loop: the event is set at the head of the loop, or
\* queue.get returns "__stop__", or it times out and the event is set
ImportWorkerExit ==
    /\ \/ iw.pc = "idle" /\ imp.stop_event
       \/ iw.pc = "get" /\ (imp.queue = <<>> \/ Head(imp.queue) = Sentinel)
    /\ imp' = IF iw.pc = "get" /\ imp.queue # <<>>
              THEN [imp EXCEPT !.queue = Tail(imp.queue)] ELSE imp
    /\ iw' = [iw EXCEPT !.pc = "stopped"]
    /\ UNCHANGED <<bvars, ivars, store_schema, scan_state, dirs, scn, staged, bak, locks,
                   sw, api, reply>>

ScanWorkerExit ==
    /\ \/ sw.pc = "idle" /\ scn.stop_event
       \/ sw.pc = "get" /\ (scn.queue = <<>> \/ Head(scn.queue) = Sentinel)
    /\ scn' = IF sw.pc = "get" /\ scn.queue # <<>>
              THEN [scn EXCEPT !.queue = Tail(scn.queue)] ELSE scn
    /\ sw' = [sw EXCEPT !.pc = "stopped"]
    /\ UNCHANGED <<bvars, ivars, store_schema, scan_state, dirs, imp, staged, bak, locks,
                   iw, api, reply>>

NextStop ==
    \/ NextLive
    \/ ImportServiceStop
    \/ ScanServiceStop
    \/ ImportWorkerExit
    \/ ScanWorkerExit

SpecStop ==
    /\ InitLive /\ [][NextStop]_vars
    /\ WF_vars(ImportStart \/ ImportLock \/ ImportIngestEnds \/ ImportSucceed
                 \/ (\E raises \in BOOLEAN : ImportCallback(raises))
                 \/ ImportFinish \/ ImportFail \/ ImportRollback \/ ImportWorkerExit)
    /\ WF_vars(ScanStart \/ ScanLock \/ ScanSectionEnds \/ ScanSucceed
                 \/ (\E raises \in BOOLEAN : ScanCallback(raises)) \/ ScanFail
                 \/ ScanWorkerExit)

(***************************************************************************)
(* SpecUpload: one ImportService that takes uploads of every kind, valid   *)
(* or not, MaxLiveJobs of which it accepts, and its worker                 *)
(***************************************************************************)
InitUpload == InitPrune

NextUpload ==
    \/ \E req \in UploadRequests : imp.submitted < MaxLiveJobs /\ submit_upload_request(req)
    \/ ImportWorker

SpecUpload == InitUpload /\ [][NextUpload]_vars

(***************************************************************************)
(* SpecScan: the scan worker at work on up to MaxLiveJobs scans of a PDF   *)
(* directory whose files are written, rewritten and removed by hand up to  *)
(* MaxFileChanges times                                                    *)
(***************************************************************************)
\* a file appears, changes or disappears in the PDF directory
ChangeFile(p, c) ==
    /\ fchanges < MaxFileChanges
    /\ files[p] # c
    /\ files' = [files EXCEPT ![p] = c]
    /\ dirs' = IF c = NoFile THEN dirs ELSE dirs \cup {p.dir}
    /\ fchanges' = fchanges + 1
    /\ UNCHANGED <<bvars, live, icalls, ilast, store_schema, scan_state, imp, scn, staged,
                   bak, locks, iw, sw, api, reply>>

InitScan ==
    /\ InitBuild
    /\ icalls = 0 /\ fchanges = 0 /\ ilast = NoCall
    /\ store_schema \in {CreatedSchema, DeployedSchema}
    /\ InitServices(1, 2)
    /\ files = [p \in Paths |-> IF p = PriorPath THEN 1 ELSE NoFile]
    /\ live = PriorStore(store_schema)
    /\ scan_state = [p \in Paths |-> IF p = PriorPath /\ store_schema.scan_state
                                     THEN stat(1) ELSE NoRow]

NextScan ==
    \/ \E p \in Paths, c \in {NoFile} \cup Versions : ChangeFile(p, c)
    \/ \E path \in ScanDirs : scn.submitted < MaxLiveJobs /\ submit_scan(path)
    \/ ScanWorker

SpecScan == InitScan /\ [][NextScan]_vars

(***************************************************************************)
(* Properties of build_db and ingest_pdfs                                  *)
(***************************************************************************)
\* the rows of the store that belong to the documents stored for a path
DocRows(db, path) ==
    LET docs == {d \in db.documents : d.pdf_path = path}
        ids == {d.id : d \in docs}
        parts == {p \in db.parts : p.document_id \in ids}
        pids == {p.id : p \in parts}
    IN [documents |-> docs,
        pages |-> {pg \in db.pages : pg.document_id \in ids},
        parts |-> parts,
        xrefs |-> {x \in db.xrefs : x.part_id \in pids},
        aliases |-> {a \in db.aliases : a.part_id \in pids}]

\* a Part row by its natural key, without row identifiers: the document is named
\* by its path and the parent by its own cells
NaturalRow(db, path, p) ==
    LET parents == {q \in db.parts : q.id = p.parent_part_id}
    IN <<path, p.page_num, p.figure_code, p.data, p.nom_level,
         {<<q.page_num, q.data, q.nom_level>> : q \in parents}>>

NaturalRows(db, path) == {NaturalRow(db, path, p) : p \in DocRows(db, path).parts}

BatchPaths(inputs) == {inputs[i].path : i \in 1..Len(inputs)}

\* C7: in the store written by build_db a non-null parent_part_id is the id of
\* a real row of the same figure group one level up, never a placeholder
C7_ParentIsRealRowOfGroup ==
    \A p \in bstate.db.parts :
        p.parent_part_id # NULL =>
            /\ p.nom_level > 0
            /\ \E q \in bstate.db.parts :
                  /\ q.id = p.parent_part_id
                  /\ q.nom_level = p.nom_level - 1
                  /\ fig_key(q.document_id, q.page_num) = fig_key(p.document_id, p.page_num)

\* the merge of document ilast.fault of the last call raised
MergeFailedAtFault ==
    /\ ~ilast.ok
    /\ ilast.fault > 0
    /\ build_db(ilast.inputs).ok
    /\ ilast.merged = ilast.fault - 1

UniqueRowKeys == \A p, q \in live.parts : RowKey(p) = RowKey(q) => p = q

\* a call of ingest_pdfs that repeats the previous, successful call on the same
\* files with the same bytes
RepeatedIngest ==
    /\ icalls' = icalls + 1
    /\ ilast.ok /\ ilast.inputs # <<>>
    /\ ilast'.inputs = ilast.inputs
    /\ ilast'.fault = 0

\* C5: the second of two runs on an unchanged PDF succeeds, replaces the
\* document, leaves exactly one Document for the path and the same Part rows by
\* natural key; and Part rows never share a natural key
C5_Idempotent ==
    /\ []UniqueRowKeys
    /\ [][RepeatedIngest =>
            /\ ilast'.ok
            /\ ilast'.replaced = Len(ilast.inputs)
            /\ \A path \in BatchPaths(ilast.inputs) :
                  /\ Cardinality(DocRows(live', path).documents) = 1
                  /\ NaturalRows(live', path) = NaturalRows(live, path)
                  /\ Cardinality(DocRows(live', path).parts)
                       = Cardinality(DocRows(live, path).parts)
            /\ Cardinality(live'.parts) = Cardinality(live.parts)]_vars

\* the store after a PDF with a repeated row was ingested a second time
C5_Witness ==
    /\ icalls = 2
    /\ ilast.ok /\ ilast.replaced = 1 /\ Len(ilast.inputs) = 1
    /\ ilast.inputs[1].content = 1
    /\ NaturalRows(live, ilast.inputs[1].path) = NaturalRows(ilast.before, ilast.inputs[1].path)
    /\ Cardinality(live.parts) = 3

\* C8: a successful ingest_pdfs leaves every document whose path is not in the
\* batch untouched, also one with the file name of an ingested file
C8_ReplacesByRelativePathOnly ==
    ilast.ok =>
        \A d \in ilast.before.documents :
            d.pdf_path \notin BatchPaths(ilast.inputs) =>
                DocRows(live, d.pdf_path) = DocRows(ilast.before, d.pdf_path)

(***************************************************************************)
(* Properties of the services                                              *)
(***************************************************************************)
\* the step that ends an import job whose ingestion raised after the promotion
FailedJobEnds ==
    /\ iw.pc = "rollback" /\ iw'.pc = "idle"
    /\ iw.final_promoted

Lifecycle == {<<"queued", "running">>, <<"running", "success">>, <<"running", "failed">>}

LifecycleKept(old, new) ==
    /\ \A j \in DOMAIN new.jobs \ DOMAIN old.jobs :
          \/ new.jobs[j].status = "queued"
          \/ new.jobs[j].status = "failed" /\ j \notin {new.queue[i] : i \in 1..Len(new.queue)}
    /\ \A j \in DOMAIN new.jobs \cap DOMAIN old.jobs :
          \/ new.jobs[j].status = old.jobs[j].status
          \/ <<old.jobs[j].status, new.jobs[j].status>> \in Lifecycle

\* C2: an ImportJob or ScanJob starts queued, its status only moves queued to
\* running, running to success and running to failed, and a job in success or
\* failed never changes status again
C2_JobLifecycle == [][LifecycleKept(imp, imp') /\ LifecycleKept(scn, scn')]_vars

\* the threads inside a block that holds a write lock and touches the store
InSection ==
    (IF iw.pc = "ingest" THEN {"import_worker"} ELSE {})
      \cup (IF sw.pc = "section" THEN {"scan_worker"} ELSE {})
      \cup (IF api.pc \in {"delete_section", "relocate_section", "relocate_undo"}
            THEN {"api"} ELSE {})

\* C3: at most one thread is inside a store-mutating section, every such thread
\* holds the one process-wide write lock, and the store changes only in a step
\* of the thread that holds it
C3_WriteLockSerializes ==
    /\ [](/\ Cardinality(InSection) <= 1
          /\ \A t \in InSection : locks["db_write_lock"] = t)
    /\ [][live' # live \/ scan_state' # scan_state =>
             /\ locks["db_write_lock"] \in InSection
             /\ locks'["db_write_lock"] = Free]_vars

\* the import worker merges while the scan worker and an API caller wait for the lock
C3_Witness ==
    /\ iw.pc = "ingest"
    /\ sw.pc = "lock"
    /\ api.pc \in {"delete_lock", "relocate_lock"}
    /\ locks["db_write_lock"] = "import_worker"

\* the paths below the scanned directory that have a scan_state row and whose
\* file the walk of the running scan did not find
Vanished ==
    {p \in Paths : UnderBase(sw.path, p) /\ scan_state[p] # NoRow
                   /\ p \notin DOMAIN sw.entries}

\* C6: a scan that completes has deleted the Document and the scan_state row of
\* every path whose file is gone and reports them, and has kept the rows of the
\* paths whose file it found
C6_ScanDeletesVanished ==
    [][sw.pc = "section" /\ sw'.pc = "succeed" =>
          /\ \A p \in Vanished :
                /\ DocRows(live', p).documents = {}
                /\ scan_state'[p] = NoRow
          /\ Vanished # {} =>
                /\ {"deleted_files", "docs_deleted"} \subseteq DOMAIN sw'.summary
                /\ sw'.summary.deleted_files = Cardinality(Vanished)
          /\ \A p \in DOMAIN sw.entries :
                /\ scan_state'[p] # NoRow
                /\ DocRows(live, p).documents # {} => DocRows(live', p).documents # {}]_vars

\* the error codes of a rejection the caller may retry (RateLimitError)
RetryableCodes == {"RATE_LIMITED"}

\* C9: a submit_upload that finds the queue full is rejected with a retryable
\* error, adds nothing to the queue, leaves no staged file and leaves its job in
\* the job list as failed with error 'import queue is full'
C9_QueueFullRejected ==
    [][imp'.submitted = imp.submitted + 1 /\ Len(imp.queue) >= imp.queue_size =>
          /\ reply'.op = "submit_upload"
          /\ reply'.code \in RetryableCodes
          /\ imp'.queue = imp.queue
          /\ staged'[imp'.submitted] = NoFile
          /\ \E i \in 1..Len(list_jobs(imp', 20)) :
                /\ list_jobs(imp', 20)[i].job_id = imp'.submitted
                /\ list_jobs(imp', 20)[i].status = "failed"
                /\ list_jobs(imp', 20)[i].error = "import queue is full"]_vars

\* the jobs a step removes from the table of the ImportService
Pruned == DOMAIN imp.jobs \ DOMAIN imp'.jobs

\* every submitted job has ended
AllJobsEnded == iw.pc = "idle" /\ imp.queue = <<>>

NewestFirst(n, k) == [i \in 1..(IF n < k THEN n ELSE k) |-> n + 1 - i]

\* C10: a prune removes only jobs that are success or failed (also the job the
\* same step has just brought there), oldest first, and no more than needed to
\* get down to the retention cap; a table over the cap holds no finished job;
\* once all jobs have ended list_jobs returns the newest ones up to the cap,
\* newest first (six jobs, cap three: the three newest)
C10_PruneOldestFinished ==
    /\ [][/\ \A j \in Pruned :
                /\ \/ imp.jobs[j].status \in Terminal
                   \/ j = iw.job /\ iw.pc \in {"succeed", "fail"}
                /\ \A k \in DOMAIN imp'.jobs : imp'.jobs[k].status \in Terminal => j < k
          /\ Pruned # {} => Len(imp'.job_order) >= imp.max_jobs_retained]_vars
    /\ [](Len(imp.job_order) > imp.max_jobs_retained =>
             \A j \in DOMAIN imp.jobs : imp.jobs[j].status \notin Terminal)
    /\ [](\A j \in 1..imp.submitted :
             \/ j \in {imp.queue[i] : i \in 1..Len(imp.queue)}
             \/ j = iw.job /\ iw.pc \in {"lock", "ingest", "succeed", "fail"}
             => j \in DOMAIN imp.jobs /\ imp.jobs[j].status \in Active)
    /\ [](AllJobsEnded =>
             [i \in 1..Len(list_jobs(imp, 20)) |-> list_jobs(imp, 20)[i].job_id]
               = NewestFirst(imp.submitted, imp.max_jobs_retained))

\* six uploads have succeeded one after the other with a cap of three
C10_Witness ==
    /\ imp.submitted = 6
    /\ imp.max_jobs_retained = 3
    /\ AllJobsEnded
    /\ list_jobs(imp, 20) = [i \in 1..3 |-> [job_id |-> 7 - i, status |-> "success",
                                             error |-> NoError]]
    /\ Cardinality(live.documents) = 1

\* no job of the service waits or runs: its worker is back in queue.get
Quiet(svc, worker) ==
    /\ worker.pc = "idle"
    /\ svc.queue = <<>>
    /\ \A j \in DOMAIN svc.jobs : svc.jobs[j].status \in Terminal

\* a job of the service has failed in the hands of its worker
FailedInWorker(svc) ==
    \E k \in DOMAIN svc.jobs :
        /\ svc.jobs[k].status = "failed"
        /\ svc.jobs[k].error \notin {"import queue is full", "scan queue is full"}

JobSucceeds == iw.pc = "succeed" /\ iw'.pc = "finish"
SucceededJobEnds == iw.pc = "unlink" /\ iw'.pc = "idle"

\* C12: when an import job whose ingestion succeeded is recorded as success, the
\* final path holds the uploaded payload, the staged file is gone and the job
\* has status success with a summary (unless the retention cap has already
\* pruned it); when its run ends, the backup of the previous file is gone too
C12_SucceededImportKeepsFile ==
    /\ [][JobSucceeds =>
             /\ iw.payload # NoFile
             /\ files'[iw.final_path] = iw.payload
             /\ staged'[iw.job] = NoFile
             /\ \/ /\ iw.job \in DOMAIN imp'.jobs
                   /\ imp'.jobs[iw.job].status = "success"
                   /\ imp'.jobs[iw.job].summary # NoSummary
                \/ /\ iw.job \notin DOMAIN imp'.jobs
                   /\ Len(imp'.job_order) >= imp'.max_jobs_retained]_vars
    /\ [][SucceededJobEnds => staged'[iw.job] = NoFile /\ bak' = NoFile]_vars

\* no worker is at work on a job and no delete, rename or move is under way
NoJobRunning == iw.pc = "idle" /\ sw.pc = "idle" /\ api.pc = "idle"

\* C13: in a store that has the scan_state table, whenever no job is running a
\* relative path has a Document row if and only if it has a ScanState row
C13_DocumentIffScanState ==
    (store_schema.scan_state /\ NoJobRunning) =>
        \A p \in Paths : DocRows(live, p).documents # {} <=> scan_state[p] # NoRow

\* the step of a scan job that diffs the walked files against scan_state,
\* ingests and upserts, in a store that has the table
ScanDiffs == sw.pc = "section" /\ sw'.pc # "section" /\ store_schema.scan_state

\* the elements of a sequence
Range(seq) == {seq[i] : i \in 1..Len(seq)}

C15_FailedBatchLeavesNoDocument ==
    (MergeFailedAtFault /\ ilast.fault = 2) =>
        live.documents = ilast.before.documents

\* the candidates of the page that match the cell exactly or loosely, the
\* similarity of a candidate to the cell, and the candidates of best similarity
ExactMatch == \E i \in 1..Len(canon.candidates) : canon.candidates[i] = upper(canon.raw)
LooseMatch ==
    \E i \in 1..Len(canon.candidates) :
        _norm_loose(canon.candidates[i]) = _norm_loose(canon.raw)
Similarity(c) == ratio(_norm_loose(c), _norm_loose(canon.raw))
BestCandidates ==
    {c \in Range(canon.candidates) :
        \A d \in Range(canon.candidates) : ~ratio_gt(Similarity(d), Similarity(c))}
BestAtLeast(percent) == \E c \in BestCandidates : ratio_ge(Similarity(c), percent)

\* the policy of the canonicalization of a cell, with the value an unverified
\* cell is given
CanonicalizationPolicy(unverified) ==
    (canon.result # NoResult /\ canon.raw # <<>>) =>
        IF ExactMatch \/ LooseMatch
        THEN /\ canon.result.method \in {"exact", "loose"}
             /\ canon.result.method = "exact" <=> ExactMatch
             /\ ~canon.result.corrected /\ ~canon.result.needs_review
        ELSE IF BestAtLeast(92)
        THEN /\ canon.result.canonical \in BestCandidates
             /\ canon.result.corrected /\ canon.result.method = "fuzzy"
             /\ ~canon.result.needs_review
        ELSE IF BestAtLeast(90)
        THEN /\ canon.result.canonical \in BestCandidates
             /\ canon.result.corrected /\ canon.result.method = "fuzzy_low"
             /\ canon.result.needs_review
        ELSE /\ canon.result.canonical = unverified
             /\ ~canon.result.corrected /\ canon.result.method = "unverified"
             /\ canon.result.needs_review

\* C16: a cell with no exact and no loose match is given the best candidate as
\* fuzzy (similarity >= 0.92, no review) or fuzzy_low (0.90 <= similarity <
\* 0.92, review), both corrected, and otherwise keeps the raw value unmodified
\* as unverified, not corrected, for review; an exact or loose match comes
\* first and is neither corrected nor flagged for review
C16_CanonicalizationThresholds == CanonicalizationPolicy(canon.raw)

\* the same policy with the upper-cased cell for an unverified cell
CanonicalizationKeepsUpper == CanonicalizationPolicy(upper(canon.raw))

\* cells canonicalized by each of the methods
CanonicalizedAs(method) == canon.result.method = method

\* the step of delete_document that resolves the row and deletes it, and the
\* step that unlinks the file and returns
DeleteResolves == api.pc = "delete_section" /\ api'.pc # "delete_section"
DeleteUnlinks == api.pc = "delete_file" /\ api'.pc = "idle"

NoRows == [documents |-> {}, pages |-> {}, parts |-> {}, xrefs |-> {}, aliases |-> {}]

\* C17: delete_document of a path that has a Document removes the Document
\* row, its Page, Part, XRef and Alias rows, its ScanState row and its file,
\* counts the rows removed per table, and leaves the rows and files of the
\* other paths as they are; for a path with no Document it returns deleted
\* false with all counts zero and changes nothing
C17_DeleteRemovesDocument ==
    /\ [][DeleteResolves =>
            LET rows == DocRows(live, api.source)
            IN IF rows.documents # {}
               THEN /\ api'.pc = "delete_file"
                    /\ DocRows(live', api.source) = NoRows
                    /\ scan_state'[api.source] = NoRow
                    /\ api'.deleted_counts =
                         [pages |-> Cardinality(rows.pages),
                          parts |-> Cardinality(rows.parts),
                          xrefs |-> Cardinality(rows.xrefs),
                          aliases |-> Cardinality(rows.aliases)]
                    /\ \A q \in Paths \ {api.source} :
                          /\ DocRows(live', q) = DocRows(live, q)
                          /\ scan_state'[q] = scan_state[q]
               ELSE /\ api'.pc = "idle" /\ reply' = NoReply
                    /\ api'.deleted_counts = NoCounts
                    /\ UNCHANGED <<live, files, scan_state>>]_vars
    /\ [][DeleteUnlinks =>
            /\ files'[api.source] = NoFile
            /\ \A q \in Paths \ {api.source} : files'[q] = files[q]
            /\ UNCHANGED <<live, scan_state>>]_vars

\* an import job for the path is queued or running
JobFor(path) ==
    \E j \in DOMAIN imp.jobs :
        /\ imp.jobs[j].status \in {"queued", "running"}
        /\ imp.jobs[j].relative_path = path

\* the call is turned down with the validation error and nothing has changed
TurnedDown(op) ==
    /\ reply' = [op |-> op, code |-> "VALIDATION_ERROR", job |-> 0, queue_full |-> FALSE]
    /\ api'.pc = "idle"
    /\ UNCHANGED <<files, dirs, live, scan_state, staged, bak, imp>>

\* C18: delete_document, rename_document and move_document called for a path
\* (or, for rename and move, to a path) that has a queued or running import
\* job raise the validation error and change neither files nor rows
C18_BusyPathRejected ==
    [][\A path \in Paths :
          /\ (DeleteCheck(path) /\ JobFor(path)) => TurnedDown("delete_document")
          /\ \A target \in Paths :
                (RelocateCheck(path, target) /\ (JobFor(path) \/ JobFor(target)))
                    => TurnedDown("relocate_document")]_vars

\* a rename or move has been turned down while the job for its path is queued
\* or running, the document, its file and its rows being as before
C18_Witness ==
    /\ reply.op = "relocate_document" /\ reply.code = "VALIDATION_ERROR"
    /\ api.pc = "idle" /\ api.calls = 1
    /\ JobFor(PriorPath)
    /\ DocRows(live, PriorPath).documents # {}
    /\ files[PriorPath] # NoFile

\* a delete has been turned down while the job for its path is running
DeleteTurnedDown ==
    /\ reply.op = "delete_document" /\ reply.code = "VALIDATION_ERROR"
    /\ \E j \in DOMAIN imp.jobs :
          imp.jobs[j].status = "running" /\ imp.jobs[j].relative_path = iw.final_path

\* the step of rename_document or move_document that returns updated = true
\* for a new path other than the old one
Relocated ==
    /\ api.pc = "relocate_section" /\ api'.pc = "idle"
    /\ api'.result = "updated"
    /\ api.source # api.target

RelocateReturns ==
    /\ api.pc = "relocate_section" /\ api'.pc = "idle"
    /\ api.source # api.target

\* the path has a Document; a Document or a file occupies the path
HasDocument(path) ==
    DocRows(live, path).documents # {} \/ RowsByRelativePath(path) # {}
Occupied(path) == HasDocument(path) \/ files[path] # NoFile

\* C20: rename_document and move_document of a document to a path that a
\* Document or a file occupies raise the conflict error, and for a source path
\* that has no Document return updated = false; both leave every file and
\* every row as it was
C20_RelocateConflictChangesNothing ==
    [][RelocateReturns =>
          /\ ~HasDocument(api.source) =>
                /\ api'.result = "not updated" /\ reply' = NoReply
                /\ UNCHANGED <<files, live, scan_state>>
          /\ (HasDocument(api.source) /\ Occupied(api.target)) =>
                /\ reply'.code = "CONFLICT"
                /\ UNCHANGED <<files, live, scan_state>>]_vars

\* the upload fails one of the validations of submit_upload
InvalidUpload(req) ==
    \/ req.filename \in {"", " "}
    \/ req.filename = "bad.txt"
    \/ req.payload = ""
    \/ payload_len(req.payload) > max_file_size_bytes
    \/ req.content_type = "text/plain"
    \/ ~startswith_pdf(req.payload)
    \/ req.target_dir \in {"..", "engine/./x"}

\* C21: a submit_upload that fails validation (missing or non-.pdf file name,
\* empty or oversized payload, unsupported content type, wrong signature,
\* invalid target_dir) raises the validation error and creates no job, queues
\* nothing and stages no file
C21_InvalidUploadLeavesNothing ==
    [][\A req \in UploadRequests :
          (submit_upload_request(req) /\ InvalidUpload(req)) =>
              /\ reply' = [op |-> "submit_upload", code |-> "VALIDATION_ERROR",
                           job |-> 0, queue_full |-> FALSE]
              /\ UNCHANGED <<imp, staged, files, bak>>]_vars

\* an invalid upload has been rejected by a service that holds an accepted job
C21_Witness ==
    /\ reply = [op |-> "submit_upload", code |-> "VALIDATION_ERROR", job |-> 0,
                queue_full |-> FALSE]
    /\ imp.submitted = 1 /\ DOMAIN imp.jobs = {1}
    /\ staged[1] # NoFile

\* the worker thread of the service has left its loop and no job of the
\* service is left in status running
Terminated(svc, worker) ==
    /\ worker.pc = "stopped"
    /\ \A j \in DOMAIN svc.jobs : svc.jobs[j].status # "running"

\* the job the worker is at work on when the event is set
InProgress(svc, worker) ==
    worker.job \in DOMAIN svc.jobs /\ svc.jobs[worker.job].status = "running"

\* C22: stop() cancels no job: a job that is running when the event is set
\* keeps running until it is success or failed, and once stop() has been
\* called the worker thread leaves its loop, with no job left in running
C22_StopEndsWorker ==
    /\ imp.stop_event ~> Terminated(imp, iw)
    /\ scn.stop_event ~> Terminated(scn, sw)
    /\ [][/\ InProgress(imp, iw) /\ imp.stop_event
             => \/ imp'.jobs[iw.job].status \in {"running", "success", "failed"}
          /\ InProgress(scn, sw) /\ scn.stop_event
             => \/ scn'.jobs[sw.job].status \in {"running", "success", "failed"}]_vars
    /\ [][/\ (iw.pc # "stopped" /\ iw'.pc = "stopped") => ~InProgress(imp, iw)
          /\ (sw.pc # "stopped" /\ sw'.pc = "stopped") => ~InProgress(scn, sw)]_vars

\* both workers have terminated after stop() found them at work on a job,
\* which has ended, the import worker with a job still waiting in its queue
C22_Witness ==
    /\ imp.stop_event /\ scn.stop_event
    /\ iw.pc = "stopped" /\ sw.pc = "stopped"
    /\ 1 \in DOMAIN imp.jobs /\ imp.jobs[1].status \in Terminal
    /\ 2 \in DOMAIN imp.jobs /\ imp.jobs[2].status = "queued"
    /\ 1 \in DOMAIN scn.jobs /\ scn.jobs[1].status \in Terminal

\* the jobs of a service that are running, and the jobs a step makes running
RunningJobs(svc) == {j \in DOMAIN svc.jobs : svc.jobs[j].status = "running"}

\* the jobs of the service that a step takes from queued to running are the
\* entry at the head of its queue, with no job accepted earlier still waiting,
\* and entries join the queue at its tail only
TakenInOrder(svc, svc2) ==
    /\ \A j \in DOMAIN svc.jobs \cap DOMAIN svc2.jobs :
          (svc.jobs[j].status = "queued" /\ svc2.jobs[j].status = "running") =>
              /\ svc.queue # <<>> /\ Head(svc.queue) = j
              /\ svc2.queue = Tail(svc.queue)
              /\ \A k \in DOMAIN svc.jobs : k < j => svc.jobs[k].status # "queued"
    /\ \/ svc2.queue = svc.queue
       \/ svc.queue # <<>> /\ svc2.queue = Tail(svc.queue)
       \/ \E j \in DOMAIN svc2.jobs : svc2.queue = Append(svc.queue, j)

\* C23: each of the two services has at most one job in status running at any
\* time, and its jobs become running in the order in which its queue accepted
\* them
C23_OneRunningFifo ==
    /\ [](Cardinality(RunningJobs(imp)) <= 1 /\ Cardinality(RunningJobs(scn)) <= 1)
    /\ [][TakenInOrder(imp, imp') /\ TakenInOrder(scn, scn')]_vars

\* in both services the second job is running, after the first, and had
\* waited in the queue behind it
C23_Witness ==
    /\ {1, 2} \subseteq DOMAIN imp.jobs /\ {1, 2} \subseteq DOMAIN scn.jobs
    /\ imp.jobs[1].status \in Terminal /\ imp.jobs[2].status = "running"
    /\ scn.jobs[1].status \in Terminal /\ scn.jobs[2].status = "running"
    /\ imp.jobs[1].error # "import queue is full"

\* the step in which the on_success callback of an import job returns or raises
CallbackEnds == iw.pc = "finish" /\ iw'.pc # "finish"

\* C24: when the on_success callback raises after the ingestion of an import job
\* succeeded, the job keeps status success: the run goes on to the removal of
\* the backup and not to the except branch, no file is rolled back, and a job
\* recorded as success is never anything else as long as it is retained
C24_CallbackFailureSwallowed ==
    /\ [][CallbackEnds =>
             /\ iw'.pc = "unlink"
             /\ iw.job \in DOMAIN imp.jobs => imp'.jobs[iw.job].status = "success"
             /\ files' = files /\ staged' = staged /\ bak' = bak]_vars
    /\ [][\A j \in DOMAIN imp.jobs \cap DOMAIN imp'.jobs :
             imp.jobs[j].status = "success" => imp'.jobs[j] = imp.jobs[j]]_vars
    /\ [](iw.pc = "unlink" /\ iw.job \in DOMAIN imp.jobs =>
             imp.jobs[iw.job].status = "success")

\* the callback of a succeeded import job has raised, the job that replaced an
\* earlier file is success and the final path holds its payload
C24_Witness ==
    /\ iw.pc = "unlink" /\ iw.error = "Import success callback failed"
    /\ iw.backup_path
    /\ iw.job \in DOMAIN imp.jobs /\ imp.jobs[iw.job].status = "success"
    /\ files[iw.final_path] = iw.payload

\* C25: the rejection submit_upload raises on a full import queue is a
\* RateLimitError: its code is RATE_LIMITED and its details carry
\* retry_after = 3
C25_QueueFullIsRateLimited ==
    (reply.op = "submit_upload" /\ reply.queue_full) =>
        /\ reply.code = "RATE_LIMITED"
        /\ "retry_after" \in DOMAIN import_queue_full_error.details
        /\ import_queue_full_error.details["retry_after"] = 3

\* two rows of the documents table carry the same relative path
DuplicateRelativePaths(schema, db) ==
    /\ schema.relative_path
    /\ \E d1, d2 \in db.documents :
          d1.id # d2.id /\ d1.relative_path = d2.relative_path

\* a run of ensure_schema
EnsureSchemaRuns == icalls' = icalls + 1 /\ ilast'.op = "ensure_schema"

\* C26: ensure_schema never drops or changes a row and a second run gives what
\* the first gave; on a documents table with two rows of the same relative
\* path it fails with an integrity error 'duplicate values found' and deletes
\* no row; after a successful run the unique index on documents.relative_path
\* exists
C26_EnsureSchemaMigrates ==
    [][EnsureSchemaRuns =>
          /\ live' = live
          /\ ensure_schema(store_schema', live') =
                ensure_schema(store_schema, live)
          /\ DuplicateRelativePaths(store_schema, live) =>
                ilast'.error = "duplicate values found"
          /\ ilast'.error = NoError => store_schema'.relative_path_unique]_vars

\* the part of C26 the code meets: no run drops or changes a row, and a run on
\* the result of a run changes nothing
EnsureSchemaKeepsRows ==
    [][EnsureSchemaRuns =>
          /\ live' = live
          /\ ensure_schema(store_schema', live').schema = store_schema'
          /\ ensure_schema(store_schema', live').db = live]_vars

\* the threads inside _do_render, and the threads blocked in acquire
Rendering == {t \in Renderers : render.pc[t] = "_do_render"}
WaitsForPermit(t) == render.pc[t] = "acquire"

\* C27: at most render_semaphore renders execute at a time; a call that gets no
\* permit within render_timeout ends with a render error and holds no permit,
\* so no call waits for ever; every permit taken is given back when the render
\* ends, returning or raising: the free permits are render_semaphore minus the
\* renders in progress
C27_RenderPermits ==
    /\ [](Cardinality(Rendering) <= render_semaphore)
    /\ [](render.permits = render_semaphore - Cardinality(Rendering))
    /\ \A t \in Renderers : WaitsForPermit(t) ~> ~WaitsForPermit(t)
    /\ [][\A t \in Renderers :
             /\ (WaitsForPermit(t) /\ render'.pc[t] = "idle") =>
                    render'.outcome[t] = "RenderError" /\ render'.permits = render.permits
             /\ (t \in Rendering /\ render'.pc[t] = "idle") =>
                    render'.permits = render.permits + 1]_vars

\* after a call timed out while two renders held the permits, and a render
\* raised, all permits are free again
C27_Witness ==
    /\ render.outcome["t3"] = "RenderError" /\ render.pc["t3"] = "idle"
    /\ render.outcome["t1"] = "PageNotFoundError"
    /\ render.outcome["t2"] = "cache_path"
    /\ Rendering = {} /\ render.permits = render_semaphore
    /\ render.calls = 3

\* the entry of `paths` names a file: it is a string with more than blanks
NamesFile(raw_path) == raw_path.type = "str" /\ strip(raw_path.value) # <<>>

\* C28: a batch delete returns one result per input path, in input order, with
\* total the number of input paths, deleted the number of results with ok true
\* and failed = total - deleted; a path that is invalid, missing, conflicting or
\* raises an unexpected error yields a result with ok false and its error code,
\* and the paths after it are processed all the same
C28_BatchDeleteResults ==
    (bdel.pc = "returned" /\ bdel.paths # <<>>) =>
        LET payload == bdel.payload
            n == Len(bdel.paths)
        IN /\ payload.raised = ""
           /\ payload.total = n /\ Len(payload.results) = n
           /\ payload.deleted = Cardinality({i \in 1..n : payload.results[i].ok})
           /\ payload.failed = n - payload.deleted
           /\ \A i \in 1..n :
                 /\ payload.results[i].path =
                        IF bdel.paths[i].type = "str" THEN strip(bdel.paths[i].value)
                        ELSE bdel.paths[i].value
                 /\ payload.results[i].ok <=>
                        NamesFile(bdel.paths[i]) /\ bdel.outcomes[i] = "deleted"
                 /\ ~payload.results[i].ok =>
                        payload.results[i].error_code =
                           CASE ~NamesFile(bdel.paths[i]) -> "VALIDATION_ERROR"
                             [] bdel.outcomes[i] = "ValidationError" -> "VALIDATION_ERROR"
                             [] bdel.outcomes[i] \in {"not_deleted", "NotFoundError"} -> "NOT_FOUND"
                             [] bdel.outcomes[i] = "ConflictError" -> "CONFLICT"
                             [] OTHER -> "INTERNAL_ERROR"

\* a batch of three paths whose first raised an unexpected error and whose
\* second was in conflict, with the third deleted
C28_Witness ==
    /\ bdel.pc = "returned" /\ Len(bdel.paths) = 3
    /\ \A i \in 1..3 : NamesFile(bdel.paths[i])
    /\ bdel.outcomes = <<"OperationalError", "ConflictError", "deleted">>
    /\ bdel.payload.deleted = 1 /\ bdel.payload.failed = 2
    /\ bdel.payload.results[3].ok

\* a call of set, and a call of get, of the CacheService
SetCalled == cache'.ops = cache.ops + 1 /\ cache'.last.op = "set"
GetCalled == cache'.ops = cache.ops + 1 /\ cache'.last.op = "get"

\* the key in the cache that was set or found longest ago
LeastRecentlyUsed ==
    {k \in keys(cache.entries) :
        \A other \in keys(cache.entries) : cache.used[k] <= cache.used[other]}

\* the entries other than the one of the key, as a set
OtherEntries(entries, key) == {entries[i] : i \in 1..Len(entries)} \ entry_of(entries, key)

\* C29: with max_size >= 1 the cache never holds more than max_size entries; a
\* set of a new key on a full cache evicts exactly the least recently used
\* entry, a set and a successful get both counting as a use of their key; a set
\* of an existing key replaces its value and evicts no other key
C29_LruEviction ==
    /\ [](Len(cache.entries) <= max_size
            /\ Cardinality(keys(cache.entries)) = Len(cache.entries))
    /\ [][SetCalled =>
            LET key == cache'.last.key
                new == key \notin keys(cache.entries)
                full == Len(cache.entries) = max_size
            IN /\ keys(cache'.entries) =
                     IF new /\ full
                     THEN (keys(cache.entries) \ LeastRecentlyUsed) \cup {key}
                     ELSE keys(cache.entries) \cup {key}
               /\ (new /\ full) => Cardinality(LeastRecentlyUsed) = 1
               /\ OtherEntries(cache'.entries, key) \subseteq OtherEntries(cache.entries, key)
               /\ \E value \in CacheValues, ttl \in TTLs :
                     entry_of(cache'.entries, key) =
                        {[key |-> key, value |-> value, created_at |-> cache.now,
                          ttl |-> ttl]}]_vars

\* after set a, set b and a get that found a, the set of c has evicted b
C29_Witness ==
    /\ cache.last = [op |-> "set", key |-> "c", returned |-> None, evicted |-> {"b"}]
    /\ keys(cache.entries) = {"a", "c"}
    /\ cache.hits = 1 /\ cache.used["a"] = 3 /\ cache.used["b"] = 2

\* the age of the entry of the key is greater than its TTL, a TTL <= 0 being
\* no limit
TooOld(entry, now) == entry.ttl > 0 /\ now - entry.created_at > entry.ttl

\* C30: get never returns an entry whose age is greater than its TTL: the entry
\* is removed, the call counts as a miss and returns None; an entry with
\* ttl <= 0 never expires; hits + misses is the number of get calls made
C30_TtlExpiry ==
    /\ [](cache.hits + cache.misses = cache.gets)
    /\ [][GetCalled =>
            LET key == cache'.last.key
                found == entry_of(cache.entries, key)
            IN /\ cache'.gets = cache.gets + 1
               /\ \A entry \in found :
                     IF TooOld(entry, cache.now)
                     THEN /\ cache'.last.returned = None
                          /\ key \notin keys(cache'.entries)
                          /\ cache'.misses = cache.misses + 1 /\ cache'.hits = cache.hits
                     ELSE /\ cache'.last.returned = entry.value
                          /\ entry \in entry_of(cache'.entries, key)
                          /\ cache'.hits = cache.hits + 1 /\ cache'.misses = cache.misses
               /\ found = {} =>
                     /\ cache'.last.returned = None
                     /\ cache'.misses = cache.misses + 1 /\ cache'.hits = cache.hits
               /\ OtherEntries(cache'.entries, key) = OtherEntries(cache.entries, key)]_vars

\* a get has just found the entry of b expired and removed it, after a get of a,
\* set two seconds ago with ttl 0, had returned its value
C30_Witness ==
    /\ cache.last = [op |-> "get", key |-> "b", returned |-> None, evicted |-> {}]
    /\ cache.hits = 1 /\ cache.misses = 1 /\ cache.now = 2
    /\ keys(cache.entries) = {"a"}
    /\ \A e \in entry_of(cache.entries, "a") : e.ttl = 0 /\ e.created_at = 0
    /\ cache.used["b"] = 2 /\ cache.used["a"] = 3

\* a directory of more than one path component
Nested(dir) == dir \in {"engine/sub"}

\* C31: single-level directory policy: a directory argument with more than one
\* path component is rejected with a validation error and nothing is changed,
\* so that no import job and no scan job is ever registered for such a
\* directory
C31_SingleLevelDirectories ==
    /\ \A j \in DOMAIN imp.jobs : ~Nested(imp.jobs[j].relative_path.dir)
    /\ \A j \in DOMAIN scn.jobs : ~Nested(scn.jobs[j].path)

\* the database, the PDF directory and the upload directory are all writable
WriteRequirementsMet ==
    /\ enablement.writable.db
    /\ enablement.config.pdf_dir /\ enablement.writable.pdf
    /\ enablement.writable.upload

RecordProcessed == bdoc' = bdoc /\ bdoc > 0 /\ <<bstate, blast>>' # <<bstate, blast>>
GroupOf(rec) == fig_key(bdoc, rec.page_num)
RowsOf(db, rec, parent_part_id) ==
    {q \in db.parts :
        RowKey(q) = <<bdoc, rec.page_num, page_figure_code(rec.page_num), rec.data,
                      rec.nom_level, Coalesce(parent_part_id)>>}

\* C33: after build_db has processed a row at level L, the stack of the row's
\* figure group has exactly L+1 entries and entry L is the id of that row;
\* every entry above L is gone and the entries below L are what they were
\* (levels the stack never held are placeholders)
C33_StackAfterRow ==
    [][RecordProcessed =>
          LET rec == blast'
              L == rec.nom_level
              old == StackOf(bstate.stacks, GroupOf(rec))
              new == StackOf(bstate'.stacks, GroupOf(rec))
              parent == ParentOf(old, L)
          IN /\ Len(new) = L + 1
             /\ Cardinality(RowsOf(bstate'.db, rec, parent)) = 1
             /\ \A q \in RowsOf(bstate'.db, rec, parent) : new[L + 1] = q.id
             /\ \A i \in 1..L :
                   new[i] = IF i <= Len(old) THEN old[i] ELSE Placeholder]_vars

\* a row at level 0 has just been processed in a figure group that holds rows
\* at levels 1 and 2: the deeper entries of the stack are gone
C33_Witness ==
    /\ bdoc > 0 /\ blast # NoRec /\ blast.nom_level = 0
    /\ Len(StackOf(bstate.stacks, GroupOf(blast))) = 1
    /\ \E q1, q2 \in bstate.db.parts :
          /\ q1.document_id = bdoc /\ q2.document_id = bdoc
          /\ fig_key(bdoc, q1.page_num) = GroupOf(blast)
          /\ fig_key(bdoc, q2.page_num) = GroupOf(blast)
          /\ q1.nom_level = 1 /\ q2.nom_level = 2 /\ q2.parent_part_id = q1.id
          /\ StackOf(bstate.stacks, GroupOf(blast))[1] > q2.id

\* the Part rows of the live store a reference may point at, and the rows of
\* the documents a call of ingest_pdfs has merged or left alone
PartOfDocument(db, part_id, document_id) ==
    \E q \in db.parts : q.id = part_id /\ q.document_id = document_id
DocumentOfPart(db, part_id) == {q.document_id : q \in {r \in db.parts : r.id = part_id}}
MergedNames(call) == {PdfName(call.inputs[i].path) : i \in 1..call.merged}
PartsNamed(db, names) ==
    {q \in db.parts : \E d \in db.documents : d.id = q.document_id /\ d.pdf_name \in names}

\* C34: after ingest_pdfs has merged documents into the live store, every
\* non-null parent_part_id and attached_to_part_id of a Part row and the
\* part_id of every XRef and Alias refers to exactly one Part row, a row of the
\* same document; the merged rows carry ids above the ids of every row of the
\* other documents, and no two Part rows share an id
C34_ReferencesWithinDocument ==
    [][icalls' # icalls =>
          /\ \A r \in live'.parts :
                /\ r.parent_part_id # NULL =>
                      PartOfDocument(live', r.parent_part_id, r.document_id)
                /\ r.attached_to_part_id # NULL =>
                      PartOfDocument(live', r.attached_to_part_id, r.document_id)
                /\ \A q \in live'.parts : q.id = r.id => q = r
          /\ \A x \in live'.xrefs \cup live'.aliases :
                Cardinality(DocumentOfPart(live', x.part_id)) = 1
          /\ \A r \in PartsNamed(live', MergedNames(ilast')) :
                \A q \in live'.parts \ PartsNamed(live', MergedNames(ilast')) :
                    q \in live.parts /\ r.id > q.id]_vars

\* a second call of ingest_pdfs has merged a document with a parent reference
\* and a cross reference into a store that holds such a document already
C34_Witness ==
    /\ icalls = 2 /\ ilast.merged > 0 /\ ilast.before.parts # {}
    /\ \E r, q \in live.parts :
          /\ r.document_id # q.document_id
          /\ r.parent_part_id # NULL /\ q.parent_part_id # NULL
          /\ r \in PartsNamed(live, MergedNames(ilast))
          /\ q \notin PartsNamed(live, MergedNames(ilast))
          /\ \E x \in live.xrefs : x.part_id = r.id

\* the parent references of a store that point at a Part row of the same
\* figure group, and the stacks a step of build_db leaves alone
ParentInSameGroup(db, r) ==
    \E q \in db.parts :
        /\ q.id = r.parent_part_id /\ q.document_id = r.document_id
        /\ fig_key(q.document_id, q.page_num) = fig_key(r.document_id, r.page_num)
OtherStacksUnchanged ==
    \A k \in DOMAIN bstate.stacks \ {GroupOf(blast')} :
        k \in DOMAIN bstate'.stacks /\ bstate'.stacks[k] = bstate.stacks[k]
RealParentsInSameGroup ==
    [][RecordProcessed =>
          /\ \A r \in bstate'.db.parts :
                r.parent_part_id \notin {NULL, Placeholder} =>
                    ParentInSameGroup(bstate'.db, r)
          /\ OtherStacksUnchanged]_vars

\* C35: hierarchy stacks are kept per figure group: the parent of a row is
\* always a row of the row's own figure group, and processing a row of one
\* group leaves the stack of every other group as it was
C35_StacksPerFigureGroup ==
    [][RecordProcessed =>
          /\ \A r \in bstate'.db.parts :
                r.parent_part_id # NULL => ParentInSameGroup(bstate'.db, r)
          /\ OtherStacksUnchanged]_vars

\* a job that is waiting in a queue or running, and a job that has ended (the
\* retention cap removes only ended jobs from the table)
Accepted(svc, j) == j \in DOMAIN svc.jobs /\ svc.jobs[j].status \in Active
Ended(svc, j) == j \in DOMAIN svc.jobs => svc.jobs[j].status \in Terminal

MutationStep ==
    /\ api.pc \in {"delete_section", "delete_file", "relocate_section", "relocate_undo"}
    /\ api' # api
DocumentsAt(db, path) ==
    {d \in db.documents : d.relative_path = path \/ d.pdf_path = path}
MutatedPaths ==
    {path \in Paths : \/ files'[path] # files[path]
                      \/ scan_state'[path] # scan_state[path]
                      \/ DocumentsAt(live', path) # DocumentsAt(live, path)}

\* C37: no delete or relocate changes the file or the rows of a relative path
\* while an import job for that path is queued or running, whatever the order
\* in which submit_upload and the call are interleaved
C37_NoMutationWhileBusy ==
    [][MutationStep => \A path \in MutatedPaths : ~PathBusy(path)]_vars

(***************************************************************************)
(* SpecSharedDir: the two services of a server started without UPLOAD_DIR: *)
(* the upload directory is the PDF directory                               *)
(***************************************************************************)
InitSharedDir ==
    /\ InitBuild
    /\ icalls = 0 /\ fchanges = 0 /\ ilast = NoCall
    /\ store_schema \in {CreatedSchema, DeployedSchema}
    /\ dirs = {""}
    /\ imp = DefaultImportService(1, 2)
    /\ scn = ScanService(2)
    /\ staged = <<>> /\ bak = NoFile
    /\ locks = [l \in LockNames |-> Free]
    /\ iw = IdleImportWorker /\ sw = IdleScanWorker
    /\ api = IdleApi /\ reply = NoReply
    /\ files = [p \in Paths |-> NoFile]
    /\ live = EmptyStore
    /\ scan_state = [p \in Paths |-> NoRow]

SpecSharedDir == InitSharedDir /\ [][NextLive]_vars

\* C38: a scan never ingests a staged upload file or a backup file: every
\* Document of the live store is the Document of a file at its final path, also
\* when the upload directory is the PDF directory and a scan runs while an
\* upload is staged, queued or being promoted
C38_ScanIngestsFinalPathsOnly ==
    \A d \in live.documents : d.pdf_path \in Paths

\* the rows build_db extracts from a payload, and the Documents of a store
\* that hold exactly those rows
Extracted(parts) ==
    {[page_num |-> q.page_num, nom_level |-> q.nom_level, data |-> q.data] : q \in parts}
RowsOfPayload(content) ==
    Extracted(build_db(<<[path |-> PriorPath, content |-> content]>>).db.parts)
HoldsPayload(db, path, content) ==
    \E d \in DocumentsAt(db, path) :
        Extracted({q \in db.parts : q.document_id = d.id}) = RowsOfPayload(content)

\* the step that ends the run of a failed import job: the files are rolled back
JobRolledBack == iw.pc = "rollback" /\ iw'.pc = "idle"

\* C39: when the first import job of a server has failed and its file has been
\* rolled back, the live store holds no rows extracted from the rejected upload
\* at the job's path, whatever a scan job has done in the meantime
C39_RejectedUploadLeavesNoRows ==
    [][JobRolledBack /\ iw.job = 1 =>
          ~HoldsPayload(live', iw.final_path, iw.payload)]_vars

\* the same for a server whose scan service has been given no job
RejectedUploadLeavesNoRowsWithoutScan ==
    [][JobRolledBack /\ iw.job = 1 /\ scn.submitted = 0 =>
          ~HoldsPayload(live', iw.final_path, iw.payload)]_vars

\* the step that ends a rename or move whose row update failed after the file
\* was moved, with something at the target path to move back
UpdateFailureUndone ==
    api.pc = "relocate_undo" /\ api'.pc = "idle" /\ files[api.target] # NoFile

\* after the step the source path holds the file the call found there, the
\* target path holds none, the rows are untouched and the caller has the error
AsBeforeTheCall ==
    /\ files'[api.source_file] = api.before
    /\ files'[api.target] = NoFile
    /\ \A p \in Paths \ {api.source_file, api.target} : files'[p] = files[p]
    /\ live' = live /\ scan_state' = scan_state
    /\ reply'.op = "relocate_document" /\ reply'.code = "OperationalError"

\* C40: when the row update of a rename or move fails after the file has been
\* moved to the target path, the transaction is rolled back and the file is
\* moved back: files, Document rows and ScanState rows are as before the call
\* and the caller gets the error
C40_FailedRelocateRestores == [][UpdateFailureUndone => AsBeforeTheCall]_vars

\* the same for a call during which no import job for its target path exists
FailedRelocateRestoresWithoutUpload ==
    [][UpdateFailureUndone /\ ~JobFor(api.target)
          /\ (iw.pc = "idle" \/ iw.final_path # api.target) => AsBeforeTheCall]_vars

====
